---- MODULE Spec2Model ----
(***************************************************************************)
(* A model of the bit-precise operational semantics engine of SeaHorn     *)
(* (lib/seahorn/BvOpSem2.cc, lib/seahorn/BvOpSem2Context.hh): the symbolic *)
(* machine context, the per-instruction visitor, intra-block stepping, PHI *)
(* resolution and CFG edge execution.                                      *)
(*                                                                         *)
(* Symbolic terms (Expr) are tuples whose first element is a tag.  The     *)
(* empty Expr is NullE.  A register is named by the program value it was   *)
(* created for.                                                            *)
(***************************************************************************)
EXTENDS Integers, Sequences, FiniteSets, TLC

VARIABLES M, ctx, kids, opts, trackLvl, canFail, lastOp, ret, executed, steps,
          svc

vars ==
  <<M, ctx, kids, opts, trackLvl, canFail, lastOp, ret, executed, steps, svc>>

(* Number of engine calls made by the caller in one run. *)
MaxSteps == 2

(* TrackLevel, ordered as the comparisons in isSkipped use it. *)
REG == 0
PTR == 1
MEM == 2

NullE == <<"null">>
TrueE == <<"true">>
FalseE == <<"false">>
Undef == <<"undef">>

(***************************************************************************)
(* The input program: one function with thirteen basic blocks.  The engine    *)
(* only reads it; the variable M holds it for the whole run.               *)
(***************************************************************************)
Const(ty, w, k) == [vk |-> "const", ty |-> ty, w |-> w, k |-> k]

Argument(ty) == [vk |-> "arg", ty |-> ty, w |-> 0, k |-> 0]

(* a global variable; k = 1 marks the section llvm.metadata *)
GlobalVariable(meta) == [vk |-> "global", ty |-> "ptr", w |-> 0, k |-> meta]

(* a function of the module; k = 1 when its address is taken, decl when   *)
(* it is a declaration, fi its FunctionInfo if the semantics has one      *)
Function(name, addrTaken, decl, fi) ==
  [vk |-> "function", ty |-> "ptr", w |-> 0, k |-> addrTaken,
   name |-> name, decl |-> decl, fi |-> fi]

(* FunctionInfo: number of regions, args (argument numbers), globals, ret *)
FunctionInfo(regions, args, globals, hasRet) ==
  [regions |-> regions, args |-> args, globals |-> globals, ret |-> hasRet]

(* Constants and function arguments of the program. *)
ProgramVals ==
  [ ctrue |-> Const("i1", 1, 1),
    k1    |-> Const("i32", 32, 1),
    k2    |-> Const("i32", 32, 2),
    k8    |-> Const("i8", 8, 7),
    kz    |-> Const("i8", 8, 0),
    f1    |-> Const("float", 32, 1),
    vz    |-> Const("vec", 64, 1),
    ax    |-> Argument("i32"),
    ac    |-> Argument("i1"),
    ap    |-> Argument("ptr") ]

I(kind, ty, ops, aux) ==
  [kind |-> kind, ty |-> ty, ops |-> ops, aux |-> aux,
   succ |-> << >>, inc |-> << >>, scalar |-> FALSE]

Phi(ty, inc, ops) ==
  [kind |-> "phi", ty |-> ty, ops |-> ops, aux |-> "",
   succ |-> << >>, inc |-> inc, scalar |-> FALSE]

Br(ops, succ) ==
  [kind |-> "br", ty |-> "void", ops |-> ops, aux |-> "",
   succ |-> succ, inc |-> << >>, scalar |-> FALSE]

Shadow(name, ops, scalar) ==
  [kind |-> "shadow", ty |-> "i32", ops |-> ops, aux |-> name,
   succ |-> << >>, inc |-> << >>, scalar |-> scalar]

(* The instructions of the program, by name. *)
ProgramIns ==
  [ n1   |-> I("nondet", "i32", << >>, ""),
    br_e |-> Br(<< >>, <<"head">>),
    p1   |-> Phi("i32", <<"entry", "latch">>, <<"k1", "p2">>),
    pf   |-> Phi("float", <<"entry", "latch">>, <<"f1", "fa">>),
    p2   |-> Phi("i32", <<"entry", "latch">>, <<"k2", "p1">>),
    p3   |-> Phi("i32", <<"entry", "latch">>, <<"n1", "ax">>),
    cnd  |-> I("icmp", "i1", <<"p1", "p2">>, "slt"),
    br_h |-> Br(<<"cnd">>, <<"latch", "exit">>),
    a    |-> I("binop", "i32", <<"p1", "p2">>, "add"),
    fa   |-> I("binop", "float", <<"f1", "f1">>, "fadd"),
    va   |-> I("binop", "vec", <<"vz", "vz">>, "add"),
    a2   |-> I("binop", "i32", <<"ax", "k1">>, "add"),
    br_l |-> Br(<< >>, <<"head">>),
    x1   |-> I("nondet", "i1", << >>, ""),
    as   |-> I("assume", "void", <<"x1">>, "verifier.assume"),
    br_x |-> Br(<<"ctrue">>, <<"mem", "dead">>),
    x2   |-> I("nondet", "i1", << >>, ""),
    as2  |-> I("assume", "void", <<"x2">>, "verifier.assume.not"),
    un   |-> I("unreachable", "void", << >>, ""),
    m0   |-> Shadow("shadow.mem.init", << >>, FALSE),
    q    |-> I("nondet", "ptr", << >>, ""),
    t1   |-> Shadow("shadow.mem.store", <<"m0">>, FALSE),
    ld1  |-> I("load", "i32", <<"q">>, ""),
    ld2  |-> I("load", "i32", <<"q">>, ""),
    t2   |-> Shadow("shadow.mem.store", <<"t1">>, FALSE),
    st   |-> I("store", "void", <<"n1", "q">>, ""),
    st2  |-> I("store", "void", <<"k1", "q">>, ""),
    t3   |-> Shadow("shadow.mem.store", <<"t2">>, FALSE),
    ms   |-> I("memset", "void", <<"ap", "k8", "ld1">>, ""),
    tl   |-> Shadow("shadow.mem.trsfr.load", <<"t2">>, FALSE),
    t5   |-> Shadow("shadow.mem.store", <<"t3">>, FALSE),
    mc   |-> I("memcpy", "void", <<"q", "ap", "ld1">>, ""),
    br_m |-> Br(<<"ac">>, <<"fp", "mfatal">>),
    m1   |-> Shadow("shadow.mem.init", << >>, FALSE),
    q1   |-> I("nondet", "ptr", << >>, ""),
    t4   |-> Shadow("shadow.mem.store", <<"m1">>, FALSE),
    ms2  |-> I("memset", "void", <<"q1", "k8", "ax">>, ""),
    rt   |-> I("ret", "void", << >>, ""),
    fc   |-> I("fcmp", "i1", <<"f1", "f1">>, "olt"),
    rt2  |-> I("ret", "void", << >>, ""),
    m2   |-> Shadow("shadow.mem.init", << >>, FALSE),
    q2   |-> I("nondet", "ptr", << >>, ""),
    t6   |-> Shadow("shadow.mem.store", <<"m2">>, FALSE),
    ms3  |-> I("memset", "void", <<"q2", "k8", "k2">>, ""),
    tl2  |-> Shadow("shadow.mem.trsfr.load", <<"m2">>, FALSE),
    t7   |-> Shadow("shadow.mem.store", <<"t6">>, FALSE),
    mc2  |-> I("memcpy", "void", <<"q2", "q2", "k2">>, ""),
    t8   |-> Shadow("shadow.mem.store", <<"t7">>, FALSE),
    st3  |-> I("store", "void", <<"k1", "q2">>, ""),
    z    |-> I("binop", "i8", <<"kz", "k8">>, "add"),
    rt3  |-> I("ret", "void", << >>, ""),
    s0   |-> Shadow("shadow.mem.init", << >>, TRUE),
    s1   |-> Shadow("shadow.mem.store", <<"s0">>, TRUE),
    ss   |-> I("store", "void", <<"k1", "ap">>, ""),
    sl   |-> Shadow("shadow.mem.load", <<"s1">>, TRUE),
    sld  |-> I("load", "i32", <<"ap">>, ""),
    xb   |-> I("nondet", "i1", << >>, ""),
    s2   |-> Shadow("shadow.mem.store", <<"s1">>, TRUE),
    sb   |-> I("store", "void", <<"xb", "ap">>, ""),
    sl2  |-> Shadow("shadow.mem.load", <<"s2">>, TRUE),
    slb  |-> I("load", "i1", <<"ap">>, ""),
    rt4  |-> I("ret", "void", << >>, ""),
    xs   |-> I("nondet", "i1", << >>, ""),
    br_s |-> Br(<<"xs">>, <<"trap", "exit">>),
    pt   |-> Phi("i32", <<"split">>, <<"k1">>),
    at   |-> I("binop", "i32", <<"pt", "k2">>, "add"),
    un2  |-> I("unreachable", "void", << >>, ""),
    xw   |-> I("nondet", "i32", << >>, ""),
    swi  |-> [Br(<<"xw">>, <<"fp", "mfatal">>) EXCEPT !.kind = "switch"] ]

(* The instruction lists of the basic blocks. *)
ProgramBlocks ==
  [ entry  |-> <<"n1", "br_e">>,
    head   |-> <<"p1", "pf", "p2", "p3", "cnd", "br_h">>,
    latch  |-> <<"a", "fa", "va", "a2", "br_l">>,
    exit   |-> <<"x1", "as", "br_x">>,
    dead   |-> <<"x2", "as2", "un">>,
    mem    |-> <<"m0", "q", "t1", "ld1", "ld2", "t2", "st", "st2", "t3",
                 "ms", "tl", "t5", "mc", "br_m">>,
    mfatal |-> <<"m1", "q1", "t4", "ms2", "rt">>,
    fp     |-> <<"fc", "rt2">>,
    mem2   |-> <<"m2", "q2", "t6", "ms3", "tl2", "t7", "mc2", "t8", "st3", "z",
                 "rt3">>,
    scal   |-> <<"s0", "s1", "ss", "sl", "sld", "xb", "s2", "sb", "sl2", "slb",
                 "rt4">>,
    split  |-> <<"xs", "br_s">>,
    trap   |-> <<"pt", "at", "un2">>,
    sw     |-> <<"xw", "swi">> ]

(* the llvm::Module handed to the engine: every block belongs to main *)
Program ==
  [ vals |-> ProgramVals, ins |-> ProgramIns, blocks |-> ProgramBlocks,
    fn |-> [b \in DOMAIN ProgramBlocks |-> "main"],
    entry |-> {"entry"},
    functions |-> << >>,
    globals |-> << >> ]

(***************************************************************************)
(* A second input program: main with its call instructions, and the entry  *)
(* block of another function f.                                            *)
(***************************************************************************)
CallProgram ==
  [ vals |->
      [ ax     |-> Argument("i32"),
        g1     |-> GlobalVariable(0),
        gm     |-> GlobalVariable(1),
        main   |-> Function("main", 0, FALSE, << >>),
        f      |-> Function("f", 0, FALSE, << >>),
        callee |-> Function("callee", 0, FALSE,
                            <<FunctionInfo(4, <<1>>, <<"g1">>, TRUE)>>),
        plain  |-> Function("plain", 0, FALSE, << >>),
        hlp    |-> Function("hlp", 1, FALSE, << >>),
        verr   |-> Function("verifier.error", 1, TRUE, << >>),
        ext    |-> Function("ext", 0, TRUE, << >>),
        ext2   |-> Function("ext2", 0, TRUE, << >>),
        calloc |-> Function("calloc", 0, TRUE, << >>) ],
    ins |->
      [ x0  |-> I("nondet", "i32", << >>, ""),
        rtb |-> I("ret", "void", << >>, ""),
        x   |-> I("nondet", "i32", << >>, ""),
        sum |-> I("binop", "i32", <<"x", "x">>, "add"),
        c   |-> I("icmp", "i1", <<"x", "sum">>, "slt"),
        ec  |-> I("call", "i32", <<"x", "ax">>, "ext"),
        ev  |-> I("call", "void", <<"x">>, "ext"),
        e2  |-> I("call", "i32", <<"x">>, "ext2"),
        eu  |-> I("call", "i32", <<"sum">>, "ext"),
        as3 |-> I("assume", "void", <<"c">>, "verifier.assume"),
        asn |-> I("assume", "void", <<"c">>, "verifier.assume.not"),
        rtm |-> I("ret", "void", << >>, ""),
        cm  |-> Shadow("shadow.mem.init", << >>, FALSE),
        cs  |-> Shadow("shadow.mem.store", <<"cm">>, FALSE),
        cl  |-> I("call", "ptr", << >>, "calloc"),
        cu  |-> I("binop", "i32", <<"cl", "cl">>, "add"),
        rtc |-> I("ret", "void", << >>, ""),
        lm  |-> Shadow("shadow.mem.init", << >>, FALSE),
        ll  |-> Shadow("shadow.mem.load", <<"lm">>, FALSE),
        c2  |-> I("call", "ptr", << >>, "calloc"),
        rtl |-> I("ret", "void", << >>, ""),
        ic  |-> I("call", "i32", << >>, ""),
        iv  |-> I("call", "void", << >>, ""),
        rti |-> I("ret", "void", << >>, ""),
        sm  |-> Shadow("shadow.mem.init", << >>, FALSE),
        ar  |-> Shadow("shadow.mem.arg.ref", <<"sm">>, FALSE),
        am  |-> Shadow("shadow.mem.arg.mod", <<"sm">>, FALSE),
        an  |-> Shadow("shadow.mem.arg.new", << >>, FALSE),
        rtt |-> I("ret", "void", << >>, ""),
        kx  |-> I("nondet", "i32", << >>, ""),
        kc  |-> I("call", "i32", <<"kx">>, "callee"),
        rtk |-> I("ret", "void", << >>, ""),
        dc  |-> I("call", "i32", << >>, "plain"),
        rtd |-> I("ret", "void", << >>, ""),
        fx  |-> I("nondet", "i32", << >>, ""),
        rtf |-> I("ret", "void", << >>, "") ],
    blocks |->
      [ mentry |-> <<"x0", "rtm">>,
        body   |-> <<"x", "sum", "c", "as3", "asn", "ec", "ev", "eu", "e2", "rtb">>,
        callocb |-> <<"cm", "cs", "cl", "cu", "rtc">>,
        callocl |-> <<"lm", "ll", "c2", "rtl">>,
        ind    |-> <<"ic", "iv", "rti">>,
        tags   |-> <<"sm", "ar", "am", "an", "rtt">>,
        known  |-> <<"kx", "kc", "rtk">>,
        defd   |-> <<"dc", "rtd">>,
        fentry |-> <<"fx", "rtf">> ],
    fn |-> [ mentry |-> "main", body |-> "main", callocb |-> "main",
             callocl |-> "main", ind |-> "main",
             tags |-> "main", known |-> "main", defd |-> "main",
             fentry |-> "f" ],
    entry |-> {"mentry", "fentry"},
    functions |-> <<"main", "f", "callee", "plain", "hlp", "verr", "ext",
                    "ext2", "calloc">>,
    globals |-> <<"g1", "gm">> ]

Vals == M.vals

Ins == M.ins

Blocks == M.blocks

BlockIds == DOMAIN Blocks

InstIds == DOMAIN Ins

ValueIds == InstIds \cup DOMAIN Vals

(* The error-flag register of a basic block. *)
ErrReg(bb) == "err." \o bb

AllRegs == ValueIds \cup {ErrReg(b) : b \in BlockIds}

TyOf(v) == IF v \in InstIds THEN Ins[v].ty ELSE Vals[v].ty

KindOf(v) == IF v \in InstIds THEN "inst" ELSE Vals[v].vk

IsTerminator(i) == Ins[i].kind \in {"br", "ret", "unreachable", "switch"}

IsPhi(i) == Ins[i].kind = "phi"

Terminator(bb) == Blocks[bb][Len(Blocks[bb])]

(***************************************************************************)
(* Terms built by the expression library and the memory manager.           *)
(***************************************************************************)
(* boolop::lor *)
Lor(x, y) ==
  IF x = TrueE \/ y = TrueE THEN TrueE
  ELSE IF x = FalseE THEN y
  ELSE IF y = FalseE THEN x
  ELSE <<"or", x, y>>

(* boolop::lneg and mk<NEG> *)
Neg(x) == <<"not", x>>

(* boolop::limp *)
Limp(x, y) == IF x = TrueE THEN y ELSE <<"imp", x, y>>

(* alu().si(k, w): the w-bit numeral k *)
Si(k, w) == <<"bv", k, w>>

NullPtr == <<"nullptr">>

(***************************************************************************)
(* The symbolic machine context.                                           *)
(***************************************************************************)
InitCtx ==
  [ bb      |-> "null",
    inst    |-> 0,
    prev    |-> "null",
    regs    |-> {},
    store   |-> [r \in AllRegs |-> Undef],
    side    |-> << >>,
    ignored |-> {},
    rd      |-> "none",
    wr      |-> "none",
    trf     |-> "none",
    scalar  |-> FALSE,
    pc      |-> TrueE,
    fatal   |-> "none",
    nfresh  |-> 0,
    log     |-> << >>,
    func    |-> "null",
    fparams |-> << >>,
    decl    |-> {},
    v2r     |-> [v \in ValueIds |-> NullE],
    up      |-> [v \in ValueIds |-> NullE],
    hasMem  |-> TRUE,
    moduleEntries |-> 0 ]

Fatal(C, why) == IF C.fatal = "none" THEN [C EXCEPT !.fatal = why] ELSE C

Ok(C) == C.fatal = "none"

(* OpSemContext::read: the current value of a register *)
Read(C, reg) ==
  IF C.store[reg] = Undef THEN <<"sym", reg>> ELSE C.store[reg]

(* OpSemContext::write *)
Write(C, reg, val) == [C EXCEPT !.store[reg] = val]

(* the fresh symbolic constant OpSemContext::havoc makes for a register *)
FreshVal(C, reg) == <<"nd", reg, C.nfresh>>

(* OpSemContext::havoc *)
CtxHavoc(C, reg) ==
  [C EXCEPT !.store[reg] = FreshVal(C, reg), !.nfresh = @ + 1]

AddSide(C, e) == [C EXCEPT !.side = Append(@, e)]

AddScopedSide(C, e) == AddSide(C, Limp(C.pc, e))

ResetSide(C) == [C EXCEPT !.side = << >>]

OnBasicBlockEntry(C, bb) ==
  IF C.func # "null" /\ C.func # M.fn[bb] /\ ~opts.ndebug
  THEN Fatal(C, "assert(m_func == bb.getParent())")
  ELSE [C EXCEPT !.func = IF @ = "null" THEN M.fn[bb] ELSE @,
                 !.prev = IF C.bb # "null" THEN C.bb ELSE @,
                 !.bb = bb,
                 !.inst = 1]

(* the Expr getRegister returns: the register of this context, or else   *)
(* the one of the contexts it was forked from; up is m_parent's answer    *)
GetRegisterExpr(C, v) == IF C.v2r[v] # NullE THEN C.v2r[v] ELSE C.up[v]

GetRegister(C, v) == IF GetRegisterExpr(C, v) # NullE THEN v ELSE "none"

PushParameter(C, v) == [C EXCEPT !.fparams = Append(@, v)]

(* m_fparams[idx] = v; idx counts from 0.  Past the end of the vector the  *)
(* store is out of bounds: the build either stops there or writes outside  *)
(* the vector and leaves it as it was.                                     *)
SetParameter(C, idx, v) ==
  IF idx < Len(C.fparams) THEN [C EXCEPT !.fparams[idx + 1] = v]
  ELSE IF opts.oob = "abort" THEN Fatal(C, "setParameter out of bounds")
  ELSE C

ResetParameters(C) == [C EXCEPT !.fparams = << >>]

IsAtBbEnd(C) == C.inst = Len(Blocks[C.bb]) + 1

GetCurrentInst(C) == Blocks[C.bb][C.inst]

(***************************************************************************)
(* Bv2OpSem helpers.                                                       *)
(***************************************************************************)
IsShadowMem(v) == v \in InstIds /\ Ins[v].kind = "shadow"

Uses(v) ==
  {<<i, n>> \in InstIds \X (1..3) : n <= Len(Ins[i].ops) /\ Ins[i].ops[n] = v}

OneUseInShadow(v) ==
  /\ Cardinality(Uses(v)) = 1
  /\ \A u \in Uses(v) : Ins[u[1]].kind = "shadow"

IsSkipped(v) ==
  IF IsShadowMem(v) THEN ~Ins[v].scalar /\ trackLvl < MEM
  ELSE IF TyOf(v) = "ptr" THEN OneUseInShadow(v) \/ trackLvl < PTR
  ELSE TyOf(v) \in {"float", "vec", "struct", "array"}

(* an error flag that is read from its register for every function *)
ReadErrorFlagAlways(C, bb) == Read(C, ErrReg(bb))

(* C.read(errorFlag(bb)), with Bv2OpSem::errorFlag *)
ReadErrorFlag(C, bb) == IF ~canFail THEN FalseE ELSE Read(C, ErrReg(bb))

(* Bv2OpSemContext::getConstantValue *)
GetConstantValue(c) ==
  LET v == Vals[c] IN
  IF v.vk # "const" THEN NullE
  ELSE IF v.k = 0 THEN (IF v.ty = "i1" THEN Si(0, 1) ELSE NullPtr)
  ELSE IF v.ty = "i1" THEN Si(1, 1)
  ELSE IF v.ty \in {"i8", "i32"} THEN Si(v.k, v.w)
  ELSE NullE

(* Bv2OpSem::getOperandValue *)
GetOperandValue(C, v) ==
  IF KindOf(v) = "const" THEN GetConstantValue(v)
  ELSE IF GetRegister(C, v) # "none" THEN Read(C, GetRegister(C, v))
  ELSE NullE

(* bind::mkConst(mkTerm(&v), sort): the register is named by the value *)
RegisterOf(C, v) == <<"const", v, TyOf(v)>>

(* a register whose name also depends on the context that makes it *)
MkRegisterPerContext(C, v) ==
  IF GetRegister(C, v) # "none" /\ C.hasMem THEN C
  ELSE [C EXCEPT !.regs = @ \cup {v}, !.decl = @ \cup {v},
                 !.v2r[v] = <<"const", v, TyOf(v), C.hasMem>>]

(* Bv2OpSemContext::mkRegister *)
MkRegister(C, v) ==
  IF GetRegister(C, v) # "none" THEN C
  ELSE IF KindOf(v) \notin {"inst", "function", "global"}
       THEN Fatal(C, "cannot make symbolic register")
  ELSE IF KindOf(v) # "inst" \/ IsShadowMem(v)
          \/ TyOf(v) \in {"i1", "i8", "i32", "ptr"}
       THEN [C EXCEPT !.regs = @ \cup {v}, !.decl = @ \cup {v},
                      !.v2r[v] = RegisterOf(C, v)]
  ELSE Fatal(C, "unhandled type")

(* Bv2OpSem::skipInst *)
SkipInst(C, i) ==
  IF IsShadowMem(i) THEN C
  ELSE IF i \in C.ignored THEN C
  ELSE [C EXCEPT !.ignored = @ \cup {i}]

(* Bv2OpSem::unhandledValue and unhandledInst *)
UnhandledValue(C, v) ==
  IF KindOf(v) = "inst" /\ v \notin C.ignored
  THEN [C EXCEPT !.ignored = @ \cup {v}]
  ELSE C

(***************************************************************************)
(* OpSemVisitorBase.                                                       *)
(***************************************************************************)
(* OpSemVisitorBase::havoc *)
Havoc(C, v) ==
  IF IsSkipped(v) THEN C
  ELSE IF ~C.hasMem THEN Fatal(C, "assert(m_ctx.getMemManager())")
  ELSE LET Then(C1) == IF ~Ok(C1) THEN C1 ELSE CtxHavoc(C1, v)
       IN Then(MkRegister(C, v))

(* the value OpSemVisitorBase::havoc returns *)
HavocVal(C, v) == IF IsSkipped(v) THEN NullE ELSE FreshVal(C, v)

(* OpSemVisitorBase::write *)
WriteValue(C, v, val) ==
  IF IsSkipped(v) THEN C
  ELSE LET Then(C1) == IF ~Ok(C1) THEN C1 ELSE Write(C1, v, val)
       IN Then(MkRegister(C, v))

(* setValue that records the unhandled value but leaves its register alone *)
SetValueNoHavoc(C, v, e) ==
  IF e # NullE THEN WriteValue(C, v, e)
  ELSE UnhandledValue(C, v)

(* OpSemVisitorBase::setValue *)
SetValue(C, v, e) ==
  IF e # NullE THEN WriteValue(C, v, e)
  ELSE Havoc(UnhandledValue(C, v), v)

(***************************************************************************)
(* OpSemVisitor: one operator per visit method.                            *)
(***************************************************************************)
Op(i, n) == Ins[i].ops[n]

(* setValue(inst, havoc(inst)) *)
SetHavoc(C, i) ==
  LET Then(C1) == IF ~Ok(C1) THEN C1 ELSE SetValue(C1, i, C1.store[i])
  IN Then(Havoc(C, i))

VisitNondetCall(C, i) ==
  IF TyOf(i) = "void" THEN C
  ELSE LET Set(C2) == SetValue(C2, i, C2.store[i])
           Then(C1) == IF ~Ok(C1) THEN C1 ELSE Set(CtxHavoc(C1, i))
       IN Then(MkRegister(C, i))

VisitBinaryOperator(C, i) ==
  LET op0 == GetOperandValue(C, Op(i, 1))
      op1 == GetOperandValue(C, Op(i, 2))
      res == IF op0 # NullE /\ op1 # NullE
                /\ Ins[i].aux \notin {"fadd", "fsub", "fmul", "fdiv", "frem"}
             THEN <<Ins[i].aux, op0, op1>>
             ELSE NullE
  IN IF TyOf(Op(i, 1)) = "vec" THEN Fatal(C, "vector binary operator")
     ELSE SetValue(C, i, res)

VisitICmpInst(C, i) ==
  LET op0 == GetOperandValue(C, Op(i, 1))
      op1 == GetOperandValue(C, Op(i, 2))
      res == IF op0 # NullE /\ op1 # NullE
             THEN <<"icmp", Ins[i].aux, op0, op1>>
             ELSE NullE
  IN SetValue(C, i, res)

VisitFCmpInst(C, i) == Fatal(C, "fcmp")

VisitSwitchInst(C, i) == Fatal(C, "switch must be lowered")

(* an assume that never negates its operand *)
VisitVerifierAssumeCallNoNeg(C, i) ==
  LET op == GetOperandValue(C, Op(i, 1))
  IN IF op = NullE THEN Fatal(C, "assert(op)")
     ELSE IF op # TrueE
          THEN AddScopedSide(C, Lor(ReadErrorFlag(C, C.bb), op))
          ELSE C

VisitVerifierAssumeCall(C, i) ==
  LET op0 == GetOperandValue(C, Op(i, 1))
      op == IF Ins[i].aux = "verifier.assume.not" THEN Neg(op0) ELSE op0
  IN IF op0 = NullE THEN Fatal(C, "assert(op)")
     ELSE IF op # TrueE
          THEN AddScopedSide(C, Lor(ReadErrorFlag(C, C.bb), op))
          ELSE C

VisitShadowMemCall(C, i) ==
  LET name == Ins[i].aux IN
  IF name = "shadow.mem.init" THEN SetHavoc(C, i)
  ELSE IF name = "shadow.mem.load" THEN
    LET Then(C1) ==
          IF ~Ok(C1) THEN C1
          ELSE [C1 EXCEPT !.rd = Op(i, 1), !.scalar = Ins[i].scalar]
    IN Then(MkRegister(C, Op(i, 1)))
  ELSE IF name = "shadow.mem.trsfr.load" THEN
    LET Then(C1) ==
          IF ~Ok(C1) THEN C1
          ELSE IF Ins[i].scalar
               THEN Fatal(C1, "unexpected unique scalar in mem.trsfr.load")
               ELSE [C1 EXCEPT !.trf = Op(i, 1)]
    IN Then(MkRegister(C, Op(i, 1)))
  ELSE IF name = "shadow.mem.store" THEN
    LET Set(C2, memIn) ==
          IF ~Ok(C2) THEN C2
          ELSE [C2 EXCEPT !.rd = memIn, !.wr = i, !.scalar = Ins[i].scalar]
        Then(C1) ==
          IF ~Ok(C1) THEN C1
          ELSE IF GetRegister(C1, Op(i, 1)) = "none"
               THEN Fatal(C1, "read of a null register")
          ELSE Set(SetHavoc(C1, i), GetRegister(C1, Op(i, 1)))
    IN Then(MkRegister(C, i))
  ELSE IF name = "shadow.mem.arg.ref" THEN
    PushParameter(C, GetOperandValue(C, Op(i, 1)))
  ELSE IF name = "shadow.mem.arg.mod" THEN
    LET Push(C2) == PushParameter(C2, C2.store[i])
        Then(C1) == IF ~Ok(C1) THEN C1 ELSE Push(CtxHavoc(C1, i))
    IN Then(MkRegister(PushParameter(C, GetOperandValue(C, Op(i, 1))), i))
  ELSE IF name = "shadow.mem.arg.new" THEN
    LET Push(C2) == PushParameter(C2, C2.store[i])
        Then(C1) == IF ~Ok(C1) THEN C1 ELSE Push(CtxHavoc(C1, i))
    IN Then(MkRegister(C, i))
  ELSE Fatal(C, "unknown shadow.mem call")

VisitIndirectCall(C, i) == SetValue(C, i, NullE)

(* OpSemContext::addDef *)
AddDef(C, v, u) == AddSide(C, <<"eq", v, u>>)

VisitCallocCall(C, i) ==
  IF C.rd = "none" THEN C
  ELSE IF C.scalar /\ ~opts.ndebug
       THEN Fatal(C, "assert(!m_ctx.isMemScalar())")
  ELSE IF C.wr = "none" THEN Fatal(C, "read of a null register")
  ELSE SetHavoc(AddDef(C, Read(C, C.wr),
                       IF opts.ignoreCalloc THEN Read(C, C.rd)
                       ELSE <<"constArray", NullPtr>>),
                i)

(* bind::typeOf, which is partially defined *)
TypeOf(e) ==
  IF e[1] \in {"nd", "sym"} THEN <<"sort", e[2]>>
  ELSE IF e[1] = "bv" THEN <<"bvsort", e[3]>>
  ELSE NullE

VisitExternalCall(C, i) ==
  LET F == Ins[i].aux
      all == [n \in 1..Len(Ins[i].ops) |->
                IF IsSkipped(Op(i, n)) THEN NullE
                ELSE GetOperandValue(C, Op(i, n))]
      fargs == SelectSeq(all, LAMBDA e : e # NullE)
      typed == \A n \in 1..Len(fargs) : TypeOf(fargs[n]) # NullE
      Then(C1) ==
        IF ~Ok(C1) THEN C1 ELSE SetValue(C1, i, <<"fapp", F, fargs>>)
  IN IF TyOf(i) = "void" THEN C
     ELSE IF ~opts.enableExternal \/ Vals[F].name \in opts.ignoreExternal
          THEN SetValue(C, i, NullE)
     ELSE IF typed THEN Then(MkRegister(C, i))
     ELSE SetValue(C, i, NullE)

VisitKnownFunctionCall(C, i) ==
  LET F == Ins[i].aux
      fi == Vals[F].fi[1]
      domainSz == 3 + fi.regions + Len(fi.args) + Len(fi.globals)
                    + (IF fi.ret THEN 1 ELSE 0)
      Falses(C6) == PushParameter(PushParameter(PushParameter(
                      ResetParameters(C6), FalseE), FalseE), FalseE)
      Apply(C5) ==
        IF ~Ok(C5) THEN C5
        ELSE IF Len(C5.fparams) # domainSz /\ ~opts.ndebug
             THEN Fatal(C5, "assert(getParameters().size() == domainSz)")
        ELSE Falses(AddSide(C5, <<"fapp", F, C5.fparams>>))
      PushRet(C4) == PushParameter(C4, C4.store[i])
      Set(C4) == IF ~Ok(C4) THEN C4 ELSE PushRet(SetValue(C4, i, C4.store[i]))
      Havocked(C4) == IF ~Ok(C4) THEN C4 ELSE Set(CtxHavoc(C4, i))
      Ret(C3) ==
        IF ~Ok(C3) \/ ~fi.ret THEN C3 ELSE Havocked(MkRegister(C3, i))
      Args(C2) ==
        IF ~Ok(C2) THEN C2
        ELSE [C2 EXCEPT !.fparams =
                @ \o [n \in 1..Len(fi.args) |->
                        GetOperandValue(C2, Op(i, fi.args[n]))]
                  \o [n \in 1..Len(fi.globals) |->
                        GetOperandValue(C2, fi.globals[n])]]
      ErrOut(C1) ==
        IF ~Ok(C1) THEN C1
        ELSE IF canFail
             THEN SetParameter(CtxHavoc(C1, ErrReg(C1.bb)), 2,
                               FreshVal(C1, ErrReg(C1.bb)))
        ELSE SetParameter(C1, 2, <<"havoc", FalseE>>)
      ErrIn(C0) ==
        IF ~Ok(C0) THEN C0 ELSE SetParameter(C0, 1, ReadErrorFlag(C0, C0.bb))
  IN Apply(Ret(Args(ErrOut(ErrIn(SetParameter(C, 0, C.pc))))))

(* OpSemVisitor::visitCallSite *)
VisitCallSite(C, i) ==
  LET F == Ins[i].aux IN
  IF Ins[i].kind = "assume" THEN VisitVerifierAssumeCall(C, i)
  ELSE IF Ins[i].kind = "shadow" THEN VisitShadowMemCall(C, i)
  ELSE IF Ins[i].kind = "nondet" THEN VisitNondetCall(C, i)
  ELSE IF F = "" THEN VisitIndirectCall(C, i)
  ELSE IF Vals[F].name = "calloc" THEN VisitCallocCall(C, i)
  ELSE IF Vals[F].decl THEN VisitExternalCall(C, i)
  ELSE Fatal(IF Vals[F].fi # << >> THEN VisitKnownFunctionCall(C, i) ELSE C,
             "unhandled call instruction")

(* OpSemMemManager::loadValueFromMem through Bv2OpSemContext *)
LoadValueFromMem(C, ptr) == <<"select", Read(C, C.rd), ptr>>

(* assert(m_memManager) of the Bv2OpSemContext memory operations: a forked *)
(* context has none of its own                                             *)
NoMemManager(C) == Fatal(C, "assert(m_memManager)")

(* OpSemMemManager::storeValueToMem through Bv2OpSemContext *)
StoreValueToMem(C, val, ptr) ==
  IF ~C.hasMem THEN NoMemManager(C)
  ELSE Write(C, C.wr, <<"store", Read(C, C.rd), ptr, val>>)

(* OpSemMemManager::MemSet through Bv2OpSemContext *)
MemSet(C, ptr, val, len) ==
  IF ~C.hasMem THEN NoMemManager(C)
  ELSE Write(C, C.wr, <<"memset", Read(C, C.rd), ptr, val, len>>)

(* OpSemMemManager::MemCpy through Bv2OpSemContext *)
MemCpy(C, dPtr, sPtr, len) ==
  IF ~C.hasMem THEN NoMemManager(C)
  ELSE Write(C, C.wr,
             <<"memcpy", Read(C, C.trf), Read(C, C.rd), dPtr, sPtr, len>>)

(* a scalar load that returns the register as it is *)
LoadResultRaw(C, i) ==
  IF C.rd = "none" THEN NullE
  ELSE IF C.scalar THEN Read(C, C.rd)
  ELSE IF GetOperandValue(C, Op(i, 1)) # NullE
       THEN LoadValueFromMem(C, GetOperandValue(C, Op(i, 1)))
  ELSE NullE

(* the value executeLoadInst returns *)
LoadResult(C, i) ==
  IF C.rd = "none" THEN NullE
  ELSE IF C.scalar
       THEN (IF TyOf(i) = "i1" THEN <<"bv1ToBool", Read(C, C.rd)>>
             ELSE Read(C, C.rd))
  ELSE IF GetOperandValue(C, Op(i, 1)) # NullE
       THEN LoadValueFromMem(C, GetOperandValue(C, Op(i, 1)))
  ELSE NullE

(* the context executeLoadInst leaves *)
ExecuteLoadInst(C, i) ==
  IF C.rd = "none" THEN C
  ELSE IF ~C.scalar /\ GetOperandValue(C, Op(i, 1)) # NullE /\ ~C.hasMem
       THEN NoMemManager(C)
  ELSE [C EXCEPT !.rd = "none"]

VisitLoadInst(C, i) == SetValue(ExecuteLoadInst(C, i), i, LoadResult(C, i))

ClearRW(C) == [C EXCEPT !.rd = "none", !.wr = "none"]

(* a store that updates the memory-in register in place *)
ExecuteStoreInstInPlace(C, i) ==
  LET v == GetOperandValue(C, Op(i, 1))
      p == GetOperandValue(C, Op(i, 2))
  IN IF C.rd = "none" \/ C.wr = "none" \/ IsSkipped(Op(i, 1)) THEN ClearRW(C)
     ELSE IF v # NullE /\ p # NullE /\ ~C.scalar
          THEN ClearRW(Write(C, C.rd, <<"store", Read(C, C.rd), p, v>>))
     ELSE ClearRW(C)

ExecuteStoreInst(C, i) ==
  LET val == Op(i, 1)
      addr == Op(i, 2)
      v == GetOperandValue(C, val)
      p == GetOperandValue(C, addr)
  IN IF C.rd = "none" \/ C.wr = "none" \/ IsSkipped(val) THEN ClearRW(C)
     ELSE IF v # NullE /\ C.scalar
          THEN ClearRW(Write(C, C.wr,
                 IF TyOf(val) = "i1" THEN <<"boolToBv1", v>> ELSE v))
     ELSE IF v # NullE /\ p # NullE
          THEN ClearRW(StoreValueToMem(C, v, p))
     ELSE ClearRW(C)

VisitStoreInst(C, i) == ExecuteStoreInst(C, i)

ExecuteMemSetInst(C, i) ==
  LET dst == Op(i, 1)
      val == Op(i, 2)
      length == Op(i, 3)
      addr == GetOperandValue(C, dst)
      v == GetOperandValue(C, val)
  IN IF C.rd = "none" \/ C.wr = "none" \/ IsSkipped(dst) \/ IsSkipped(val)
     THEN ClearRW(C)
     ELSE IF C.scalar THEN Fatal(C, "memset to scalars is not supported")
     ELSE IF v # NullE /\ addr # NullE
          THEN (IF KindOf(length) = "const"
                THEN ClearRW(MemSet(C, addr, v, Vals[length].k))
                ELSE Fatal(C, "Unsupported memset with symbolic length"))
     ELSE ClearRW(C)

VisitMemSetInst(C, i) == ExecuteMemSetInst(C, i)

ClearAll(C) == [C EXCEPT !.rd = "none", !.wr = "none", !.trf = "none"]

ExecuteMemCpyInst(C, i) ==
  LET dst == Op(i, 1)
      src == Op(i, 2)
      length == Op(i, 3)
      dstAddr == GetOperandValue(C, dst)
      srcAddr == GetOperandValue(C, src)
  IN IF C.rd = "none" \/ C.wr = "none" \/ C.trf = "none"
        \/ IsSkipped(dst) \/ IsSkipped(src)
     THEN ClearAll(C)
     ELSE IF C.scalar THEN Fatal(C, "memcpy to scalars is not supported")
     ELSE IF dstAddr # NullE /\ srcAddr # NullE
          THEN (IF KindOf(length) = "const"
                THEN ClearAll(MemCpy(C, dstAddr, srcAddr, Vals[length].k))
                ELSE Fatal(C, "Unsupported memcpy with symbolic length"))
     ELSE ClearAll(C)

VisitMemCpyInst(C, i) == ExecuteMemCpyInst(C, i)

(* InstVisitor::visit: dispatch on the kind of the instruction *)
Visit(C, i) ==
  CASE Ins[i].kind \in {"nondet", "assume", "shadow", "call"} -> VisitCallSite(C, i)
    [] Ins[i].kind = "binop" -> VisitBinaryOperator(C, i)
    [] Ins[i].kind = "icmp" -> VisitICmpInst(C, i)
    [] Ins[i].kind = "fcmp" -> VisitFCmpInst(C, i)
    [] Ins[i].kind = "load" -> VisitLoadInst(C, i)
    [] Ins[i].kind = "store" -> VisitStoreInst(C, i)
    [] Ins[i].kind = "memset" -> VisitMemSetInst(C, i)
    [] Ins[i].kind = "memcpy" -> VisitMemCpyInst(C, i)
    [] Ins[i].kind = "switch" -> VisitSwitchInst(C, i)
    [] Ins[i].kind = "phi" -> Fatal(C, "PHI nodes are handled by a different visitor")
    [] Ins[i].kind \in {"br", "ret", "unreachable"} -> C

(***************************************************************************)
(* Bv2OpSem: intra-block stepping, PHI resolution, branches and edges.     *)
(***************************************************************************)
(* The record kept for every instruction that intraStep executes or skips *)
LogEntry(C0, C1, i, skipped) ==
  [ inst |-> i, skipped |-> skipped, pc |-> C0.pc,
    pos0 |-> C0.inst,
    rd0 |-> C0.rd, wr0 |-> C0.wr, trf0 |-> C0.trf,
    rd1 |-> C1.rd, wr1 |-> C1.wr, trf1 |-> C1.trf,
    regs0 |-> C0.regs, fresh0 |-> C0.nfresh,
    operands |-> [n \in 1..Len(Ins[i].ops) |-> GetOperandValue(C0, Ins[i].ops[n])],
    written |-> {r \in AllRegs : C1.store[r] # C0.store[r]},
    reg1 |-> i \in C1.regs, val1 |-> C1.store[i],
    ignored |-> i \in C1.ignored,
    fatal |-> C1.fatal,
    side0 |-> C0.side, side1 |-> C1.side,
    fp0 |-> C0.fparams, fp1 |-> C1.fparams,
    bb |-> C0.bb, hasMem |-> C0.hasMem,
    err0 |-> ReadErrorFlag(C0, C0.bb),
    scalar0 |-> C0.scalar,
    memIn0 |-> IF C0.rd # "none" THEN Read(C0, C0.rd) ELSE NullE,
    memIn1 |-> IF C0.rd # "none" THEN Read(C1, C0.rd) ELSE NullE,
    trf0v |-> IF C0.trf # "none" THEN Read(C0, C0.trf) ELSE NullE,
    memOut1 |-> IF C0.wr # "none" THEN C1.store[C0.wr] ELSE NullE ]

(* a step that moves the cursor past a branch it has visited *)
IntraStepPastBranch(C) ==
  IF ~Ok(C) \/ IsAtBbEnd(C) THEN [c |-> C, ret |-> FALSE]
  ELSE
    LET i == GetCurrentInst(C) IN
    IF IsTerminator(i) /\ Ins[i].kind # "br" THEN [c |-> C, ret |-> FALSE]
    ELSE
      LET Advance(C2) ==
            IF ~Ok(C2) THEN [c |-> C2, ret |-> FALSE]
            ELSE [c |-> [C2 EXCEPT !.inst = @ + 1], ret |-> TRUE]
          Record(C1) ==
            Advance([C1 EXCEPT
                       !.log = Append(@, LogEntry(C, C1, i, IsSkipped(i)))])
      IN Record(IF IsSkipped(i) THEN SkipInst(C, i) ELSE Visit(C, i))

(* Bv2OpSem::intraStep; ret is the value it returns *)
IntraStep(C) ==
  IF ~Ok(C) \/ IsAtBbEnd(C) THEN [c |-> C, ret |-> FALSE]
  ELSE
    LET i == GetCurrentInst(C) IN
    IF IsTerminator(i) /\ Ins[i].kind # "br" THEN [c |-> C, ret |-> FALSE]
    ELSE
      LET Advance(C2) ==
            IF ~Ok(C2) THEN [c |-> C2, ret |-> FALSE]
            ELSE IF ~IsTerminator(i)
                 THEN [c |-> [C2 EXCEPT !.inst = @ + 1], ret |-> TRUE]
                 ELSE [c |-> C2, ret |-> FALSE]
          Record(C1) ==
            Advance([C1 EXCEPT
                       !.log = Append(@, LogEntry(C, C1, i, IsSkipped(i)))])
      IN Record(IF IsSkipped(i) THEN SkipInst(C, i) ELSE Visit(C, i))

RECURSIVE StepLoop(_)
(* while (intraStep(ctx)) ; *)
StepLoop(C) ==
  LET Loop(r) == IF r.ret THEN StepLoop(r.c) ELSE r.c IN Loop(IntraStep(C))

RECURSIVE SkipPhis(_)
(* for (; isa<PHINode>(ctx.getCurrentInst()); ++ctx) ; *)
SkipPhis(C) ==
  IF IsPhi(GetCurrentInst(C)) THEN SkipPhis([C EXCEPT !.inst = @ + 1]) ELSE C

(* OpSemMemManager::falloc and galloc: the address of the region *)
Alloc(v) == <<"addr", v>>

(* the address-taken functions visitModule leaves without a region *)
NoRegionNames ==
  {"verifier.error", "verifier.assume", "verifier.assume.not", "seahorn.fail"}

RECURSIVE VisitModuleLoop(_, _, _)
(* the two loops of OpSemVisitor::visitModule, over functions then globals *)
VisitModuleLoop(C, vs, n) ==
  IF ~Ok(C) \/ n > Len(vs) THEN C
  ELSE
    LET v == vs[n]
        wanted == IF KindOf(v) = "function"
                  THEN Vals[v].k = 1 /\ Vals[v].name \notin NoRegionNames
                  ELSE ~IsSkipped(v) /\ Vals[v].k # 1
        Set(C1) ==
          IF ~Ok(C1) THEN C1
          ELSE IF ~C1.hasMem THEN Fatal(C1, "getMemManager() is null")
          ELSE SetValue(C1, v, Alloc(v))
    IN VisitModuleLoop(IF wanted THEN Set(MkRegister(C, v)) ELSE C, vs, n + 1)

(* a module entry that allocates the functions only *)
VisitModuleFunctionsOnly(C) == VisitModuleLoop(C, M.functions, 1)

(* OpSemVisitor::visitModule: the module hook m_ctx.onModuleEntry, counted *)
(* in moduleEntries, and then the two loops                                *)
VisitModule(C) ==
  VisitModuleLoop([C EXCEPT !.moduleEntries = @ + 1],
                  M.functions \o M.globals, 1)

(* Bv2OpSemContext::onFunctionEntry, the per-function hook of the memory   *)
(* manager                                                                 *)
OnFunctionEntry(C) == ResetParameters(C)

(* visitBasicBlock without the function-entry hook *)
VisitBasicBlockNoEntryHook(C, bb) ==
  IF bb \in M.entry /\ M.fn[bb] = "main" THEN VisitModule(C) ELSE C

(* OpSemVisitor::visitBasicBlock *)
VisitBasicBlock(C, bb) ==
  IF bb \in M.entry
  THEN OnFunctionEntry(IF M.fn[bb] = "main" THEN VisitModule(C) ELSE C)
  ELSE C

(* Bv2OpSem::exec *)
Exec(C, bb) ==
  IF ~Ok(C) THEN C
  ELSE LET Run(C1) ==
             IF ~Ok(C1) THEN C1
             ELSE StepLoop(SkipPhis(VisitBasicBlock(C1, bb)))
       IN Run(OnBasicBlockEntry(C, bb))

(* PHINode::getIncomingValueForBlock *)
IncomingValue(phi, pred) ==
  LET k == CHOOSE n \in 1..Len(Ins[phi].inc) : Ins[phi].inc[n] = pred
  IN Ins[phi].ops[k]

RECURSIVE PhiRead(_, _, _)
(* first loop of OpSemPhiVisitor::visitBasicBlock: the vector ops *)
PhiRead(C, bb, pos) ==
  IF pos > Len(Blocks[bb]) \/ ~IsPhi(Blocks[bb][pos]) THEN << >>
  ELSE IF IsSkipped(Blocks[bb][pos]) THEN PhiRead(C, bb, pos + 1)
  ELSE <<GetOperandValue(C, IncomingValue(Blocks[bb][pos], C.prev))>>
         \o PhiRead(C, bb, pos + 1)

RECURSIVE PhiWriteSequential(_, _, _, _, _)
RECURSIVE PhiWrite(_, _, _, _, _)
(* a second loop that reads each incoming operand when it writes the PHI *)
PhiWriteSequential(C, bb, ops, pos, i) ==
  IF ~Ok(C) \/ pos > Len(Blocks[bb]) \/ ~IsPhi(Blocks[bb][pos]) THEN C
  ELSE IF IsSkipped(Blocks[bb][pos])
       THEN PhiWriteSequential(C, bb, ops, pos + 1, i)
  ELSE PhiWriteSequential(
         SetValue(C, Blocks[bb][pos],
                  GetOperandValue(C, IncomingValue(Blocks[bb][pos], C.prev))),
         bb, ops, pos + 1, i + 1)

(* second loop of OpSemPhiVisitor::visitBasicBlock *)
PhiWrite(C, bb, ops, pos, i) ==
  IF ~Ok(C) \/ pos > Len(Blocks[bb]) \/ ~IsPhi(Blocks[bb][pos]) THEN C
  ELSE IF IsSkipped(Blocks[bb][pos]) THEN PhiWrite(C, bb, ops, pos + 1, i)
  ELSE PhiWrite(SetValue(C, Blocks[bb][pos], ops[i]), bb, ops, pos + 1, i + 1)

(* OpSemPhiVisitor::visitBasicBlock *)
PhiVisitBasicBlock(C, bb) == PhiWrite(C, bb, PhiRead(C, bb, 1), 1, 1)

(* Bv2OpSem::intraPhi *)
IntraPhi(C) == IF ~Ok(C) THEN C ELSE PhiVisitBasicBlock(C, C.bb)

(* Bv2OpSem::execPhi *)
ExecPhi(C, bb, from) ==
  IF ~Ok(C) THEN C
  ELSE IntraPhi([OnBasicBlockEntry(C, bb) EXCEPT !.prev = from])

(* the infeasible-edge arm of intraBr *)
Infeasible(C) == AddScopedSide(ResetSide(C), ReadErrorFlag(C, C.bb))

(* Bv2OpSem::intraBr *)
IntraBr(C, dst) ==
  IF ~Ok(C) THEN C
  ELSE
    LET br == GetCurrentInst(C) IN
    IF Ins[br].kind # "br" THEN C
    ELSE
      LET C1 == [C EXCEPT !.inst = @ + 1]
          succ == Ins[br].succ
      IN IF Len(Ins[br].ops) = 1
         THEN LET c == Op(br, 1) IN
              IF KindOf(c) = "const"
              THEN IF \/ Vals[c].k = 1 /\ succ[1] # dst
                      \/ Vals[c].k = 0 /\ succ[2] # dst
                   THEN Infeasible(C1)
                   ELSE C1
              ELSE LET target == GetOperandValue(C1, c) IN
                   IF target # NullE
                   THEN OnBasicBlockEntry(
                          AddScopedSide(C1,
                            Lor(ReadErrorFlag(C1, C1.bb),
                                IF succ[1] = dst THEN target ELSE Neg(target))),
                          dst)
                   ELSE C1
         ELSE IF succ[1] # dst THEN Infeasible(C1)
              ELSE OnBasicBlockEntry(C1, dst)

(* a branch step that starts from an empty side-condition list *)
ExecBrResets(C, src, dst) ==
  IF ~Ok(C) THEN C
  ELSE IntraBr(ResetSide([OnBasicBlockEntry(C, src)
                            EXCEPT !.inst = Len(Blocks[src])]), dst)

(* Bv2OpSem::execBr *)
ExecBr(C, src, dst) ==
  IF ~Ok(C) THEN C
  ELSE IntraBr([OnBasicBlockEntry(C, src) EXCEPT !.inst = Len(Blocks[src])], dst)

(* OpSemContext::pc *)
SetPc(C, e) == [C EXCEPT !.pc = e]

(* an edge that never runs the destination block *)
ExecEdgStopsAtPhi(C, src, dst) ==
  ExecPhi(ExecBr(Exec(SetPc(C, TrueE), src), src, dst), dst, src)

(* Bv2OpSem::execEdg *)
ExecEdg(C, src, dst) ==
  LET Block(C3) ==
        IF Ins[Terminator(dst)].kind = "unreachable" THEN Exec(C3, dst) ELSE C3
  IN Block(ExecPhi(ExecBr(Exec(SetPc(C, TrueE), src), src, dst), dst, src))

(***************************************************************************)
(* The calls a client of the engine makes.                                 *)
(***************************************************************************)
HasPhi(bb) == IsPhi(Blocks[bb][1])

PhiPreds(bb) == {Ins[Blocks[bb][1]].inc[n] : n \in 1..Len(Ins[Blocks[bb][1]].inc)}

(* a PHI block is only entered from one of its predecessors *)
CanEnter(bb, from) == ~HasPhi(bb) \/ from \in PhiPreds(bb)

(* the (src, dst) pairs on which the client executes edges and branches *)
EdgeCalls ==
  { <<"entry", "head">>, <<"head", "latch">>, <<"head", "exit">>,
    <<"latch", "head">>, <<"exit", "mem">>, <<"exit", "dead">>,
    <<"entry", "exit">>, <<"mem", "fp">>, <<"mem", "mfatal">>,
    <<"split", "trap">>, <<"sw", "fp">> }

PhiCalls ==
  { <<"head", "entry">>, <<"head", "latch">>, <<"exit", "head">>,
    <<"latch", "head">> }

Begin(C) == [C EXCEPT !.log = << >>]

LogInsts(C) == {C.log[n].inst : n \in 1..Len(C.log)}

Finish(C, op, a, b, r) ==
  /\ ctx' = C
  /\ lastOp' = [op |-> op, a |-> a, b |-> b]
  /\ ret' = r
  /\ executed' = executed \cup LogInsts(C)
  /\ steps' = steps + 1
  /\ UNCHANGED <<M, kids, opts, trackLvl, canFail, svc>>

Ready == Ok(ctx) /\ steps < MaxSteps

(* the contexts a client may fork from the root *)
KidIds == {"kidA", "kidB"}

(* the command-line options as their cl::init leaves them, in a build    *)
(* that keeps its assertions                                              *)
DefaultOptions ==
  [ ignoreCalloc |-> FALSE, useLambdas |-> FALSE, enableExternal |-> FALSE,
    ignoreExternal |-> {}, oob |-> "abort", ndebug |-> FALSE ]

(* the configurations the call program is run under *)
Options ==
  [ ignoreCalloc : BOOLEAN, useLambdas : BOOLEAN, enableExternal : BOOLEAN,
    ignoreExternal : {{}, {"ext2"}}, oob : {"abort", "stray"},
    ndebug : BOOLEAN ]

(* The state of the services the engine is built on (the word-level memory *)
(* representations and the solver context); the engine calls leave it      *)
(* alone.                                                                  *)
(* addresses 0..MaxAddr and words 0..MaxWord *)
MaxAddr == 2

MaxWord == 1

(* both memory representations over one memory register, whose term is     *)
(* mem0 while nothing is stored to it, and a solver context with scopes    *)
(* open scopes; ptr, val, pushes and pops record the calls made.  bb is a   *)
(* basic block under in-place lowering with its cursor inst, and ran lists *)
(* the instructions executed in it.  gep is the last GEP executed: the     *)
(* indices, the offset computed for them and the width of the pointer the  *)
(* offset is added to.  pm is the last run of the PromoteMalloc pass: the  *)
(* function before and after it and the value returned.                    *)
InitSvc(scopes) ==
  [ mem     |-> [r \in {"array", "lambda"} |-> <<"mem0">>],
    ptr     |-> 0,
    val     |-> <<"w", 0>>,
    d_ctx   |-> scopes,
    scopes0 |-> scopes,
    pushes  |-> 0,
    pops    |-> 0,
    bb      |-> << >>,
    inst    |-> 0,
    ran     |-> << >>,
    gep     |-> << >>,
    pm      |-> << >> ]

Init ==
  /\ M = Program
  /\ ctx = InitCtx
  /\ kids = [k \in KidIds |-> << >>]
  /\ opts = DefaultOptions
  /\ trackLvl \in {REG, PTR, MEM}
  /\ canFail \in BOOLEAN
  /\ lastOp = [op |-> "init", a |-> "null", b |-> "null"]
  /\ ret = FALSE
  /\ executed = {}
  /\ steps = 0
  /\ svc = InitSvc(0)

DoExec ==
  \E bb \in BlockIds :
    /\ Ready
    /\ Finish(Exec(Begin(ctx), bb), "exec", bb, "null", FALSE)

DoExecEdg ==
  \E e \in EdgeCalls :
    /\ Ready
    /\ Finish(ExecEdg(Begin(ctx), e[1], e[2]), "execEdg", e[1], e[2], FALSE)

DoExecBr ==
  \E e \in EdgeCalls :
    /\ Ready
    /\ Finish(ExecBr(Begin(ctx), e[1], e[2]), "execBr", e[1], e[2], FALSE)

DoExecPhi ==
  \E e \in PhiCalls :
    /\ Ready
    /\ Finish(ExecPhi(Begin(ctx), e[1], e[2]), "execPhi", e[1], e[2], FALSE)

DoIntraStep ==
  /\ Ready
  /\ ctx.bb # "null"
  /\ LET Return(r) == Finish(r.c, "intraStep", ctx.bb, "null", r.ret)
     IN Return(IntraStep(Begin(ctx)))

DoIntraPhi ==
  /\ Ready
  /\ ctx.bb # "null"
  /\ ctx.prev # "null"
  /\ CanEnter(ctx.bb, ctx.prev)
  /\ Finish(IntraPhi(Begin(ctx)), "intraPhi", ctx.bb, ctx.prev, FALSE)

DoIntraBr ==
  \E e \in EdgeCalls :
    /\ Ready
    /\ ctx.bb = e[1]
    /\ ~IsAtBbEnd(ctx)
    /\ Finish(IntraBr(Begin(ctx), e[2]), "intraBr", e[1], e[2], FALSE)

Next ==
  \/ DoExec
  \/ DoExecEdg
  \/ DoExecBr
  \/ DoExecPhi
  \/ DoIntraStep
  \/ DoIntraPhi
  \/ DoIntraBr

Spec == Init /\ [][Next]_vars

(***************************************************************************)
(* The call program, run on a root context and the contexts forked from it.*)
(***************************************************************************)
CallInit ==
  /\ M = CallProgram
  /\ ctx = InitCtx
  /\ kids = [k \in KidIds |-> << >>]
  /\ opts \in Options
  /\ trackLvl \in {REG, PTR, MEM}
  /\ canFail \in BOOLEAN
  /\ lastOp = [op |-> "init", a |-> "null", b |-> "null"]
  /\ ret = FALSE
  /\ executed = {}
  /\ steps = 0
  /\ svc = InitSvc(0)

(* the forking constructor: Bv2OpSemContext(values, side, o), given an     *)
(* empty store and an empty side-condition list by the caller              *)
Fork(o) ==
  [o EXCEPT !.store = [r \in AllRegs |-> Undef],
            !.side = << >>,
            !.nfresh = 0,
            !.log = << >>,
            !.regs = {},
            !.v2r = [v \in ValueIds |-> NullE],
            !.up = [v \in ValueIds |-> GetRegisterExpr(o, v)],
            !.hasMem = FALSE]

(* a child that also sees the registers its siblings made *)
KidBeginShared(k) ==
  [kids[k][1] EXCEPT
     !.up = [v \in ValueIds |->
               IF GetRegisterExpr(ctx, v) # NullE THEN GetRegisterExpr(ctx, v)
               ELSE IF \E j \in KidIds : kids[j] # << >> /\ kids[j][1].v2r[v] # NullE
                    THEN RegisterOf(ctx, v)
               ELSE NullE],
     !.log = << >>]

(* the child k as an engine call finds it: m_parent points at the root *)
KidBegin(k) ==
  [kids[k][1] EXCEPT !.up = [v \in ValueIds |-> GetRegisterExpr(ctx, v)],
                     !.log = << >>]

KidFinish(k, C, op, a) ==
  /\ kids' = [kids EXCEPT ![k] = <<C>>]
  /\ lastOp' = [op |-> op, a |-> a, b |-> k]
  /\ steps' = steps + 1
  /\ UNCHANGED <<M, ctx, opts, trackLvl, canFail, ret, executed, svc>>

KidReady(k) == kids[k] # << >> /\ Ok(kids[k][1]) /\ steps < MaxSteps

(* the blocks the client executes in a forked context *)
KidBlocks == {"body", "ind", "mentry"}

(* the values the client asks registers for *)
RegValues == {"x", "g1"}

DoFork ==
  \E k \in KidIds :
    /\ Ok(ctx)
    /\ kids[k] = << >>
    /\ steps < MaxSteps
    /\ KidFinish(k, Fork(ctx), "fork", "null")

DoKidExec ==
  \E k \in KidIds, bb \in KidBlocks :
    /\ KidReady(k)
    /\ KidFinish(k, Exec(KidBegin(k), bb), "kidExec", bb)

(* Bv2OpSem::mkSymbReg on the root *)
DoMkSymbReg ==
  \E v \in RegValues :
    /\ Ready
    /\ Finish(MkRegister(Begin(ctx), v), "mkSymbReg", v, "null", FALSE)

(* Bv2OpSem::mkSymbReg on a forked context *)
DoKidMkSymbReg ==
  \E k \in KidIds, v \in RegValues :
    /\ KidReady(k)
    /\ KidFinish(k, MkRegister(KidBegin(k), v), "kidMkSymbReg", v)

CallNext ==
  \/ DoExec
  \/ DoIntraStep

CallSpec == CallInit /\ [][CallNext]_vars

(* a root context and the first context forked from it, just constructed *)
ForkInit ==
  /\ M = CallProgram
  /\ ctx = InitCtx
  /\ kids = [k \in KidIds |-> IF k = "kidA" THEN <<Fork(InitCtx)>> ELSE << >>]
  /\ opts = DefaultOptions
  /\ trackLvl \in {REG, PTR, MEM}
  /\ canFail \in BOOLEAN
  /\ lastOp = [op |-> "init", a |-> "null", b |-> "null"]
  /\ ret = FALSE
  /\ executed = {}
  /\ steps = 0
  /\ svc = InitSvc(0)

ForkNext ==
  \/ DoExec
  \/ DoFork
  \/ DoKidExec
  \/ DoMkSymbReg
  \/ DoKidMkSymbReg

ForkSpec == ForkInit /\ [][ForkNext]_vars

(***************************************************************************)
(* The services the engine is built on: the word-level memory              *)
(* representations (BvOpSem2Context.hh) and the scopes of the Yices solver *)
(* context (lib/ufo/Smt/Yices2Impl.cc).                                    *)
(***************************************************************************)
(* OpSemMemArrayRepr / OpSemMemLambdaRepr :: loadAlignedWordFromMem *)
LoadAlignedWordFromMem(repr, ptr, mem) ==
  IF repr = "array" THEN <<"select", mem, ptr>> ELSE <<"fapp", mem, ptr>>

(* a store that is layered over the initial memory *)
StoreAlignedWordOverInit(repr, val, ptr, mem) ==
  IF repr = "array" THEN <<"store", <<"mem0">>, ptr, val>>
  ELSE <<"lambda", ptr, val, <<"mem0">>>>

(* OpSemMemArrayRepr / OpSemMemLambdaRepr :: storeAlignedWordToMem; the     *)
(* lambda is the function that maps ptr to val and every other address to  *)
(* mem's word                                                              *)
StoreAlignedWordToMem(repr, val, ptr, mem) ==
  IF repr = "array" THEN <<"store", mem, ptr, val>>
  ELSE <<"lambda", ptr, val, mem>>

ServiceInit ==
  /\ M = Program
  /\ ctx = InitCtx
  /\ kids = [k \in KidIds |-> << >>]
  /\ opts = DefaultOptions
  /\ trackLvl = MEM
  /\ canFail = TRUE
  /\ lastOp = [op |-> "init", a |-> "null", b |-> "null"]
  /\ ret = FALSE
  /\ executed = {}
  /\ steps = 0
  /\ \E scopes \in 0..1 : svc = InitSvc(scopes)

(* the memory register is replaced by the result of storing the word k at  *)
(* ptr, in both representations                                            *)
DoStoreAlignedWord ==
  \E ptr \in 0..MaxAddr, k \in 0..MaxWord :
    /\ steps < MaxSteps
    /\ svc' = [svc EXCEPT
                 !.mem = [r \in DOMAIN svc.mem |->
                            StoreAlignedWordToMem(r, <<"w", k>>, ptr, svc.mem[r])],
                 !.ptr = ptr,
                 !.val = <<"w", k>>]
    /\ lastOp' = [op |-> "storeAlignedWordToMem", a |-> "null", b |-> "null"]
    /\ steps' = steps + 1
    /\ UNCHANGED <<M, ctx, kids, opts, trackLvl, canFail, ret, executed>>

(* yices_impl::push: yices_push(d_ctx) opens a scope *)
DoPush ==
  /\ steps < MaxSteps
  /\ svc' = [svc EXCEPT !.d_ctx = @ + 1, !.pushes = @ + 1]
  /\ lastOp' = [op |-> "push", a |-> "null", b |-> "null"]
  /\ steps' = steps + 1
  /\ UNCHANGED <<M, ctx, kids, opts, trackLvl, canFail, ret, executed>>

(* yices_impl::pop: it calls yices_push(d_ctx) as well *)
DoPop ==
  /\ steps < MaxSteps
  /\ svc' = [svc EXCEPT !.d_ctx = @ + 1, !.pops = @ + 1]
  /\ lastOp' = [op |-> "pop", a |-> "null", b |-> "null"]
  /\ steps' = steps + 1
  /\ UNCHANGED <<M, ctx, kids, opts, trackLvl, canFail, ret, executed>>

(* Bv2OpSem::intraStep on a block whose bswap call visitIntrinsicInst      *)
(* lowers in place.  IntrinsicLowering::LowerIntrinsicCall puts the three  *)
(* instructions of the 16-bit byte swap in the place of the call and       *)
(* erases the call; the cursor is then set to the first instruction of the *)
(* block when the call was the first one, and else to the instruction      *)
(* before the call.  intraStep goes on to test isa<TerminatorInst> on the  *)
(* erased call: stale is what that test of freed memory answers.           *)
IntraStepLowering(s, stale) ==
  IF s.inst = Len(s.bb) + 1 THEN [c |-> s, ret |-> FALSE]
  ELSE
    LET i == s.bb[s.inst]
        atBegin == s.inst = 1
        lowered == SubSeq(s.bb, 1, s.inst - 1)
                     \o <<"bswap.2", "bswap.1", "bswap.i16">>
                     \o SubSeq(s.bb, s.inst + 1, Len(s.bb))
        visited == IF i = "bswap"
                   THEN [s EXCEPT !.bb = lowered,
                                  !.inst = IF atBegin THEN 1 ELSE s.inst - 1]
                   ELSE [s EXCEPT !.ran = Append(@, i)]
        isTerminator == i = "bswap" /\ stale
    IN IF i = "ret" THEN [c |-> s, ret |-> FALSE]
       ELSE IF ~isTerminator
            THEN [c |-> [visited EXCEPT !.inst = @ + 1], ret |-> TRUE]
       ELSE [c |-> visited, ret |-> FALSE]

(* exec on a block with a bswap call, first in the block or not, and the   *)
(* steps that follow until the cursor is on the terminator                 *)
DoLowerBswap ==
  \E bb \in {<<"bswap", "use", "ret">>, <<"def", "bswap", "use", "ret">>},
     stale \in BOOLEAN :
    LET RECURSIVE Steps(_)
        Steps(s) ==
          IF s.bb[s.inst] = "ret" THEN s
          ELSE Steps(IntraStepLowering(s, stale).c)
    IN /\ steps < MaxSteps
       /\ svc' = [svc EXCEPT !.bb = Steps([bb |-> bb, inst |-> 1, ran |-> << >>]).bb,
                            !.inst = Steps([bb |-> bb, inst |-> 1, ran |-> << >>]).inst,
                            !.ran = Steps([bb |-> bb, inst |-> 1, ran |-> << >>]).ran]
       /\ lastOp' = [op |-> "lowerBswap", a |-> "null", b |-> "null"]
       /\ steps' = steps + 1
       /\ UNCHANGED <<M, ctx, kids, opts, trackLvl, canFail, ret, executed>>

RECURSIVE SymbolicIndexedOffsetLoop(_, _, _, _, _)
(* the loop of Bv2OpSem::symbolicIndexedOffset over the indices of a GEP.  *)
(* An index is a struct field (k its fieldOff), a constant index k into    *)
(* elements of sz bytes, or a symbolic index: an operand of k bits.        *)
(* noffset is kept as the signed reading of the uint64_t sum.              *)
SymbolicIndexedOffsetLoop(ptrSz, TI, n, noffset, soffset) ==
  IF n > Len(TI) THEN [noffset |-> noffset, soffset |-> soffset]
  ELSE
    LET i == TI[n]
        a == <<"bvmul", <<"sym", n, i.k>>, <<"bvnum", i.sz, ptrSz>>>>
    IN IF i.kind = "field"
       THEN SymbolicIndexedOffsetLoop(ptrSz, TI, n + 1, noffset + i.k, soffset)
       ELSE IF i.kind = "const"
       THEN SymbolicIndexedOffsetLoop(ptrSz, TI, n + 1,
                                      noffset + i.k * i.sz, soffset)
       ELSE SymbolicIndexedOffsetLoop(ptrSz, TI, n + 1, noffset,
              IF soffset = << >> THEN a ELSE <<"bvadd", soffset, a>>)

(* Bv2OpSem::symbolicIndexedOffset; ptrSz is pointerSizeInBits(), the      *)
(* pointer size of the module's data layout.  noffset > 0 is a test of an  *)
(* unsigned number: it fails for zero only.                                *)
SymbolicIndexedOffset(ptrSz, TI) ==
  LET r == SymbolicIndexedOffsetLoop(ptrSz, TI, 1, 0, << >>)
      num == <<"bvnum", r.noffset, ptrSz>>
  IN IF r.soffset # << >>
     THEN (IF r.noffset # 0 THEN <<"bvadd", r.soffset, num>> ELSE r.soffset)
     ELSE num

(* the index lists of the GEPs executed: element sizes 4 and 8, a struct   *)
(* field at byte 4, index operands of 32 and of 64 bits                    *)
GepIndices ==
  LET Field(k)    == [kind |-> "field", k |-> k, sz |-> 0]
      Idx(k, sz)  == [kind |-> "const", k |-> k, sz |-> sz]
      Sym(w, sz)  == [kind |-> "sym", k |-> w, sz |-> sz]
  IN { <<Idx(0, 4)>>, <<Idx(1, 4)>>, <<Idx(-1, 4)>>, <<Idx(0, 8), Field(4)>>,
       <<Idx(0, 8), Field(0)>>, <<Idx(1, 8), Idx(-2, 4)>>,
       <<Idx(-1, 8), Field(4), Idx(1, 4)>>, <<Sym(32, 4)>>,
       <<Sym(64, 4)>>, <<Idx(1, 8), Sym(32, 4)>>, <<Sym(32, 8), Sym(32, 4)>> }

(* visitGetElementPtrInst on a module whose data layout has pointers of    *)
(* dl bits: the pointer operand is a term of ptrSort(), of width           *)
(* ptrSzInBits() = m_ptrSz * 8 with m_ptrSz the option horn-bv2-ptr-size   *)
(* (4); the offset added to it is symbolicIndexedOffset of the indices.    *)
DoGep ==
  \E dl \in {32, 64}, TI \in GepIndices :
    /\ steps < MaxSteps
    /\ svc' = [svc EXCEPT !.gep = [TI |-> TI, ptr |-> 4 * 8,
                                   off |-> SymbolicIndexedOffset(dl, TI)]]
    /\ lastOp' = [op |-> "gep", a |-> "null", b |-> "null"]
    /\ steps' = steps + 1
    /\ UNCHANGED <<M, ctx, kids, opts, trackLvl, canFail, ret, executed>>

RECURSIVE RunOnFunctionLoop(_, _, _)
(* the loop of PromoteMalloc::runOnFunction over the instructions of F: a  *)
(* call to malloc gets an alloca inserted before it that takes over its    *)
(* uses and sets changed, a call to free is put on the kill list; body is  *)
(* the function with the allocas inserted and the kill list erased         *)
RunOnFunctionLoop(F, n, r) ==
  IF n > Len(F) THEN r
  ELSE IF F[n] = "malloc"
       THEN RunOnFunctionLoop(F, n + 1,
              [body |-> r.body \o <<"alloca", "malloc">>, changed |-> TRUE])
  ELSE IF F[n] = "free"
       THEN RunOnFunctionLoop(F, n + 1, r)
  ELSE RunOnFunctionLoop(F, n + 1, [r EXCEPT !.body = Append(@, F[n])])

(* PromoteMalloc::runOnFunction *)
RunOnFunction(name, F) ==
  IF F = << >> THEN [body |-> F, changed |-> FALSE]
  ELSE IF name # "main" THEN [body |-> F, changed |-> FALSE]
  ELSE RunOnFunctionLoop(F, 1, [body |-> << >>, changed |-> FALSE])

(* the pass manager runs PromoteMalloc on a function *)
DoPromoteMalloc ==
  \E name \in {"main", "foo"},
     F \in { << >>, <<"add", "ret">>, <<"malloc", "ret">>, <<"free", "ret">>,
             <<"malloc", "add", "free", "ret">> } :
    /\ steps < MaxSteps
    /\ svc' = [svc EXCEPT !.pm = [name |-> name, F |-> F,
                                  body |-> RunOnFunction(name, F).body,
                                  changed |-> RunOnFunction(name, F).changed]]
    /\ lastOp' = [op |-> "promoteMalloc", a |-> "null", b |-> "null"]
    /\ steps' = steps + 1
    /\ UNCHANGED <<M, ctx, kids, opts, trackLvl, canFail, ret, executed>>

ServiceNext ==
  \/ DoStoreAlignedWord
  \/ DoPush
  \/ DoPop
  \/ DoLowerBswap
  \/ DoGep
  \/ DoPromoteMalloc

ServiceSpec == ServiceInit /\ [][ServiceNext]_vars

TypeOK ==
  /\ ctx.bb \in BlockIds \cup {"null"}
  /\ ctx.regs \subseteq ValueIds
  /\ steps \in 0..MaxSteps

(***************************************************************************)
(* Properties.                                                             *)
(***************************************************************************)
LogIdx == 1..Len(ctx.log)

Phis(bb) == {Blocks[bb][n] : n \in {m \in 1..Len(Blocks[bb]) : IsPhi(Blocks[bb][m])}}

AllPhis == {i \in InstIds : IsPhi(i)}

(* C1: PHI atomicity.  When execPhi or intraPhi enters block B from        *)
(* predecessor P, every non-skipped PHI of B whose incoming operand for P  *)
(* has a value holds afterwards the value that operand had before the call.*)
C1_PhiAtomicity ==
  [][(lastOp'.op \in {"execPhi", "intraPhi"} /\ Ok(ctx'))
       => \A phi \in Phis(lastOp'.a) :
            LET v == GetOperandValue(ctx, IncomingValue(phi, lastOp'.b)) IN
            (~IsSkipped(phi) /\ v # NullE) => ctx'.store[phi] = v]_vars

(* the two PHIs of head that name each other have swapped their values *)
C1_Witness ==
  /\ lastOp = [op |-> "execPhi", a |-> "head", b |-> "latch"]
  /\ ctx.store["p1"] = Si(2, 32)
  /\ ctx.store["p2"] = Si(1, 32)
  /\ "pf" \notin ctx.regs

StaticDisagree(src, dst) ==
  LET br == Terminator(src) IN
  /\ Ins[br].kind = "br"
  /\ IF Len(Ins[br].ops) = 0 THEN Ins[br].succ[1] # dst
     ELSE /\ KindOf(Op(br, 1)) = "const"
          /\ Ins[br].succ[IF Vals[Op(br, 1)].k = 1 THEN 1 ELSE 2] # dst

(* C2: after execEdg(src, dst) on a statically infeasible edge the          *)
(* side-condition list is exactly the value of src's error flag.           *)
C2_InfeasibleEdgeSide ==
  (lastOp.op = "execEdg" /\ Ok(ctx) /\ StaticDisagree(lastOp.a, lastOp.b))
    => ctx.side = <<ReadErrorFlag(ctx, lastOp.a)>>

NonConstCond(src) ==
  LET br == Terminator(src) IN
  /\ Ins[br].kind = "br"
  /\ Len(Ins[br].ops) = 1
  /\ KindOf(Op(br, 1)) # "const"

(* C3: for a conditional branch on a non-constant condition c, execBr      *)
(* appends exactly (errorFlag(src) OR c), or (errorFlag(src) OR NOT c) for *)
(* the false successor, keeps the earlier side-conditions and enters dst.  *)
C3_CondBranchSide ==
  [][(lastOp'.op = "execBr" /\ NonConstCond(lastOp'.a))
       => LET br == Terminator(lastOp'.a)
              c == Read(ctx, Op(br, 1))
              e == IF Ins[br].succ[1] = lastOp'.b THEN c ELSE Neg(c)
          IN /\ ctx'.side = Append(ctx.side, Lor(ReadErrorFlag(ctx, lastOp'.a), e))
             /\ ctx'.bb = lastOp'.b]_vars

(* C4: execEdg(src, dst) runs only the instructions of src at or after the *)
(* cursor, under path condition true, and never runs again an instruction  *)
(* of src that an earlier call on the context already executed.            *)
C4_EdgeRunsRemaining ==
  [][lastOp'.op = "execEdg"
       => \A n \in 1..Len(ctx'.log) :
            LET e == ctx'.log[n] IN
            (\E m \in 1..Len(Blocks[lastOp'.a]) : Blocks[lastOp'.a][m] = e.inst)
              => /\ e.inst \notin executed
                 /\ e.pc = TrueE]_vars

C6_SkippedIsIgnoredAndHavocked ==
  \A n \in LogIdx :
    ctx.log[n].skipped
      => /\ ctx.log[n].ignored
         /\ ctx.log[n].inst \in ctx.log[n].regs0
              => ctx.log[n].inst \in ctx.log[n].written

(* the instruction cannot be given a term: an operand has no value, or the *)
(* load has no memory register to read                                     *)
NoTerm(e) ==
  \/ /\ Ins[e.inst].kind \in {"binop", "icmp"}
     /\ \E k \in 1..Len(e.operands) : e.operands[k] = NullE
  \/ /\ Ins[e.inst].kind = "load"
     /\ e.rd0 = "none"

FpOrVec(i) ==
  \/ Ins[i].ty \in {"float", "vec"}
  \/ \E k \in 1..Len(Ins[i].ops) : TyOf(Op(i, k)) \in {"float", "vec"}

(* C8: stepping onto a vector or floating-point instruction always ends    *)
(* the run in the fatal state; it is never skipped or ignored.             *)
C8_FpVecIsFatal ==
  \A n \in LogIdx :
    FpOrVec(ctx.log[n].inst)
      => /\ ctx.log[n].fatal # "none"
         /\ ~ctx.log[n].skipped
         /\ ~ctx.log[n].ignored

SymbolicLenMemOp(e) ==
  /\ Ins[e.inst].kind \in {"memset", "memcpy"}
  /\ KindOf(Op(e.inst, 3)) # "const"
  /\ e.rd0 # "none"
  /\ e.wr0 # "none"
  /\ Ins[e.inst].kind = "memcpy" => e.trf0 # "none"

(* C9: a memset or memcpy with a non-constant length, executed with its    *)
(* meta-registers set, always ends in the fatal 'unsupported' outcome.     *)
C9_SymbolicLengthIsFatal ==
  \A n \in LogIdx :
    SymbolicLenMemOp(ctx.log[n])
      => /\ ctx.log[n].fatal # "none"
         /\ ctx.log[n].written = {}

MissingMetaReg(e) ==
  \/ Ins[e.inst].kind = "load" /\ e.rd0 = "none"
  \/ Ins[e.inst].kind = "store" /\ (e.rd0 = "none" \/ e.wr0 = "none")

(* C10: a load or store executed while its required meta-register is unset *)
(* is not fatal, writes no memory register and leaves both the read and    *)
(* the write meta-register unset.                                          *)
C10_MissingMetaRegClears ==
  \A n \in LogIdx :
    LET e == ctx.log[n] IN
    (~e.skipped /\ MissingMetaReg(e))
      => /\ e.fatal = "none"
         /\ \A r \in e.written : ~IsShadowMem(r)
         /\ e.rd1 = "none"
         /\ e.wr1 = "none"

(* C11: every call instruction is handled by one call treatment and then   *)
(* returns to the stepping loop; a direct call to a defined function with  *)
(* a known summary does not end in the fatal unhandled-call outcome.       *)
C11_KnownCallReturns ==
  \A n \in LogIdx :
    LET e == ctx.log[n] IN
    (Ins[e.inst].kind = "call" /\ Ins[e.inst].aux # "" /\ ~e.skipped
       /\ Vals[Ins[e.inst].aux].fi # << >>)
      => e.fatal # "unhandled call instruction"

(* C12: a call with a known summary adds exactly one side-condition, the   *)
(* summary applied to: path condition, error flag before, fresh error flag *)
(* after, the region values the preceding shadow.mem.arg tags pushed, the  *)
(* arguments, the globals and the fresh return value; afterwards the       *)
(* parameter stack holds exactly (false, false, false).                    *)
C12_SummaryArguments ==
  \A n \in LogIdx :
    LET e == ctx.log[n]
        F == Ins[e.inst].aux
    IN (Ins[e.inst].kind = "call" /\ F # "" /\ ~e.skipped
          /\ Vals[F].fi # << >>)
         => /\ Len(e.side1) = Len(e.side0) + 1
            /\ LET app == e.side1[Len(e.side1)]
                   fi == Vals[F].fi[1]
                   k == Len(e.fp0)
               IN /\ app[1] = "fapp"
                  /\ app[2] = F
                  /\ Len(app[3]) = 3 + k + Len(fi.args) + Len(fi.globals)
                                     + (IF fi.ret THEN 1 ELSE 0)
                  /\ app[3][1] = e.pc
                  /\ SubSeq(app[3], 4, 3 + k) = e.fp0
                  /\ \A a \in 1..Len(fi.args) :
                       app[3][3 + k + a] = e.operands[fi.args[a]]
                  /\ fi.ret => app[3][Len(app[3])] = e.val1
            /\ e.fp1 = <<FalseE, FalseE, FalseE>>

C14_AssumeSideCondition ==
  \A n \in LogIdx :
    LET e == ctx.log[n] IN
    (Ins[e.inst].kind = "assume" /\ ~e.skipped /\ e.fatal = "none")
      => LET c == e.operands[1]
             op == IF Ins[e.inst].aux = "verifier.assume.not" THEN Neg(c) ELSE c
         IN /\ e.side1 = IF op = TrueE THEN e.side0
                          ELSE Append(e.side0, Limp(e.pc, Lor(e.err0, op)))
            /\ e.written = {}
            /\ e.rd1 = e.rd0 /\ e.wr1 = e.wr0 /\ e.trf1 = e.trf0
            /\ e.fp1 = e.fp0

(* both assumes of block body have run, in a function that can fail, with  *)
(* parameters on the stack                                                 *)
C14_Witness ==
  /\ canFail
  /\ ctx.fparams # << >>
  /\ \E n \in LogIdx, m \in LogIdx :
       /\ ctx.log[n].inst = "as3" /\ ctx.log[n].fatal = "none"
       /\ ctx.log[m].inst = "asn" /\ ctx.log[m].fatal = "none"
       /\ ctx.log[m].side1 =
            Append(ctx.log[m].side0,
                   <<"or", <<"sym", "err.body">>, Neg(ctx.log[m].operands[1])>>)

(* C15: with the option to treat calloc as malloc on, calloc constrains    *)
(* the output memory register to equal the input one and adds no           *)
(* zero-fill; with it off, the output memory register is constrained to    *)
(* the all-zero memory in the form of the configured representation.  In   *)
(* both cases the result register of the call receives a fresh pointer.    *)
C15_CallocToggle ==
  \A n \in LogIdx :
    LET e == ctx.log[n]
        F == Ins[e.inst].aux
    IN (Ins[e.inst].kind = "call" /\ F # "" /\ ~e.skipped
          /\ Vals[F].name = "calloc" /\ e.fatal = "none")
         => /\ e.reg1 /\ e.val1 = <<"nd", e.inst, e.fresh0>>
            /\ e.rd0 # "none"
                 => /\ Len(e.side1) = Len(e.side0) + 1
                    /\ LET def == e.side1[Len(e.side1)] IN
                         /\ def[1] = "eq"
                         /\ IF opts.ignoreCalloc
                            THEN def[3][1] \notin {"constArray", "lambda"}
                            ELSE def[3] = <<IF opts.useLambdas THEN "lambda"
                                            ELSE "constArray", NullPtr>>

(* C16: a non-void call to an external declaration never fails: it yields  *)
(* a fresh value when external-call modelling is off or the callee is      *)
(* excluded, the callee's uninterpreted function applied to the arguments  *)
(* when every sort is known, and a fresh value otherwise.  A void external *)
(* call changes nothing.  An indirect call always yields a fresh value.    *)
C16_ExternalAndIndirectCalls ==
  \A n \in LogIdx :
    LET e == ctx.log[n]
        F == Ins[e.inst].aux
        fresh == <<"nd", e.inst, e.fresh0>>
        fargs == SelectSeq(e.operands, LAMBDA a : a # NullE)
    IN (Ins[e.inst].kind = "call" /\ ~e.skipped /\ e.hasMem)
         => IF F = "" THEN e.fatal = "none" /\ e.val1 = fresh
            ELSE (Vals[F].decl /\ Vals[F].name # "calloc")
                   => /\ e.fatal = "none"
                      /\ IF TyOf(e.inst) = "void"
                         THEN e.written = {} /\ ~e.reg1 /\ e.side1 = e.side0
                         ELSE IF ~opts.enableExternal
                                 \/ Vals[F].name \in opts.ignoreExternal
                              THEN e.val1 = fresh
                         ELSE IF \A a \in 1..Len(fargs) : TypeOf(fargs[a]) # NullE
                              THEN e.val1 = <<"fapp", F, fargs>>
                         ELSE e.val1 = fresh

C18_ChildUsesParentMemory ==
  \A k \in KidIds :
    kids[k] # << >>
      => kids[k][1].fatal \notin
           { "assert(m_ctx.getMemManager())", "assert(m_memManager)",
             "getMemManager() is null" }

(* C19: at most one register per program value per context lineage: two   *)
(* contexts of the lineage that return a register for a value return the   *)
(* same one, mkRegister(v) called again returns the register it returned   *)
(* before, and a child's mkRegister never changes what the parent's        *)
(* getRegister returns.                                                    *)
C19_OneRegisterPerValue ==
  [][/\ \A v \in ValueIds :
          \A j \in KidIds :
            kids'[j] # << >> =>
              /\ (GetRegisterExpr(ctx', v) # NullE
                     /\ GetRegisterExpr(KidBegin(j)', v) # NullE)
                    => GetRegisterExpr(KidBegin(j)', v) = GetRegisterExpr(ctx', v)
              /\ \A i \in KidIds :
                    (kids'[i] # << >>
                       /\ GetRegisterExpr(KidBegin(i)', v) # NullE
                       /\ GetRegisterExpr(KidBegin(j)', v) # NullE)
                      => GetRegisterExpr(KidBegin(j)', v)
                           = GetRegisterExpr(KidBegin(i)', v)
     /\ \A v \in ValueIds :
          GetRegisterExpr(ctx, v) # NullE
            => GetRegisterExpr(ctx', v) = GetRegisterExpr(ctx, v)
     /\ \A k \in KidIds :
          (lastOp'.op = "kidMkSymbReg" /\ lastOp'.b = k) =>
            \A v \in ValueIds :
              /\ GetRegisterExpr(ctx', v) = GetRegisterExpr(ctx, v)
              /\ GetRegisterExpr(KidBegin(k), v) # NullE
                   => GetRegisterExpr(KidBegin(k)', v)
                        = GetRegisterExpr(KidBegin(k), v)]_vars

(* the root made the register of g1 after child kidA had made it on its    *)
(* own: two creations, one register                                        *)
C19_Witness ==
  /\ lastOp = [op |-> "mkSymbReg", a |-> "g1", b |-> "null"]
  /\ kids["kidA"][1].v2r["g1"] # NullE
  /\ ctx.v2r["g1"] = kids["kidA"][1].v2r["g1"]

C21_MemorySsaThreading ==
  \A n \in LogIdx :
    LET e == ctx.log[n]
        kind == Ins[e.inst].kind
        t == IF e.pos0 > 1 THEN Blocks[e.bb][e.pos0 - 1] ELSE e.inst
        len == Vals[Op(e.inst, 3)].k
    IN (kind \in {"store", "memset", "memcpy"} /\ ~e.skipped
          /\ e.fatal = "none"
          /\ IsShadowMem(t) /\ Ins[t].aux = "shadow.mem.store" /\ ~IsSkipped(t))
         => /\ e.rd0 = Op(t, 1)
            /\ e.wr0 = t
            /\ e.memIn1 = e.memIn0
            /\ \A r \in e.written : IsShadowMem(r) => r = t
            /\ (/\ ~e.scalar0
                /\ kind = "memcpy" => e.trf0 # "none"
                /\ \A k \in 1..Len(e.operands) :
                     e.operands[k] # NullE /\ ~IsSkipped(Op(e.inst, k)))
                 => e.memOut1 =
                      CASE kind = "store" ->
                             <<"store", e.memIn0, e.operands[2], e.operands[1]>>
                        [] kind = "memset" ->
                             <<"memset", e.memIn0, e.operands[1], e.operands[2],
                               len>>
                        [] kind = "memcpy" ->
                             <<"memcpy", e.trf0v, e.memIn0, e.operands[1],
                               e.operands[2], len>>

(* with memory tracked, the memset, the memcpy and the store of block mem2 *)
(* have each produced the memory of their tag                              *)
C21_Witness ==
  /\ trackLvl = MEM
  /\ lastOp = [op |-> "exec", a |-> "mem2", b |-> "null"]
  /\ Ok(ctx)
  /\ ctx.store["t8"] = <<"store", ctx.store["t7"], ctx.store["q2"], Si(1, 32)>>
  /\ ctx.store["t6"] = <<"memset", ctx.store["m2"], ctx.store["q2"], Si(7, 8), 2>>
  /\ ctx.store["t7"][1] = "memcpy"
  /\ ctx.store["t7"][3] = ctx.store["t6"]

(* C25: the symbolic value of an integer constant of type iW with value k  *)
(* is the W-bit bit-vector numeral k, also for k = 0: every integer        *)
(* constant read as an operand yields the numeral of the constant's own    *)
(* width.                                                                  *)
C25_ConstantIsNumeralOfItsWidth ==
  \A n \in LogIdx :
    LET e == ctx.log[n] IN
    \A k \in 1..Len(e.operands) :
      LET o == Op(e.inst, k) IN
      (/\ o \in DOMAIN Vals
       /\ Vals[o].vk = "const"
       /\ Vals[o].ty \in {"i1", "i8", "i32"}
       /\ ~e.skipped)
        => e.operands[k] = Si(Vals[o].k, Vals[o].w)

C27_EdgeLeavesPrevSrc ==
  (lastOp.op = "execEdg" /\ Ok(ctx) /\ ~StaticDisagree(lastOp.a, lastOp.b))
    => (ctx.bb = lastOp.b /\ ctx.prev = lastOp.a)

(* C28: if dst ends in unreachable, execEdg(src, dst) also executes every  *)
(* non-PHI, non-terminator instruction of dst exactly once, after dst's    *)
(* PHIs are resolved (an operand that is a PHI of dst has the value that   *)
(* came in from src); if dst ends in any other terminator, the edge        *)
(* executes no instruction of dst and leaves the cursor at dst's first     *)
(* instruction.                                                            *)
C28_EdgeRunsUnreachableBlock ==
  (lastOp.op = "execEdg" /\ Ok(ctx)) =>
    LET src == lastOp.a
        dst == lastOp.b
        Runs(i) == {n \in LogIdx : ctx.log[n].inst = i /\ ctx.log[n].bb = dst}
        Body == {Blocks[dst][n] : n \in 1..(Len(Blocks[dst]) - 1)} \ Phis(dst)
    IN IF Ins[Terminator(dst)].kind = "unreachable"
       THEN \A i \in Body :
              /\ Cardinality(Runs(i)) = 1
              /\ \A n \in Runs(i) : \A k \in 1..Len(Ins[i].ops) :
                   (Op(i, k) \in Phis(dst) /\ ~IsSkipped(Op(i, k)))
                     => /\ ctx.log[n].operands[k] = ctx.store[Op(i, k)]
                        /\ KindOf(IncomingValue(Op(i, k), src)) = "const"
                             => ctx.log[n].operands[k]
                                  = GetConstantValue(IncomingValue(Op(i, k), src))
       ELSE /\ \A i \in Body \cup {Terminator(dst)} : Runs(i) = {}
            /\ ctx.bb = dst
            /\ ctx.inst = 1

(* the edge split -> trap has run the add of trap once, on the resolved PHI *)
C28_Witness ==
  /\ lastOp = [op |-> "execEdg", a |-> "split", b |-> "trap"]
  /\ Ok(ctx)
  /\ ctx.store["pt"] = Si(1, 32)
  /\ ctx.store["at"] = <<"add", Si(1, 32), Si(2, 32)>>
  /\ Cardinality({n \in LogIdx : ctx.log[n].inst = "at"}) = 1

(* C29: when the terminator of src statically agrees with dst (an          *)
(* unconditional branch to dst, or a conditional branch on a constant      *)
(* whose taken successor is dst), the side-condition list after execBr     *)
(* equals the list before it.                                              *)
C29_AgreeingBranchKeepsSide ==
  [][LET src == lastOp'.a
         dst == lastOp'.b
         br == Terminator(src)
         Agree ==
           /\ Ins[br].kind = "br"
           /\ IF Len(Ins[br].ops) = 0 THEN Ins[br].succ[1] = dst
              ELSE /\ KindOf(Op(br, 1)) = "const"
                   /\ Ins[br].succ[IF Vals[Op(br, 1)].k = 1 THEN 1 ELSE 2] = dst
     IN (lastOp'.op = "execBr" /\ Agree) => ctx'.side = ctx.side]_vars

(* the assume of block exit has added a side-condition, and the branch     *)
(* exit -> mem on the constant true has kept it                            *)
C29_Witness ==
  /\ lastOp = [op |-> "execBr", a |-> "exit", b |-> "mem"]
  /\ Ok(ctx)
  /\ "as" \in executed
  /\ ctx.side = <<Lor(ReadErrorFlag(ctx, "exit"), ctx.store["x1"])>>
  /\ ctx.bb = "exit"

(* C30: scalar shortcut round trip.  For a region tagged as a unique       *)
(* scalar, a store of v writes v itself into the tag's write register,     *)
(* whether or not the pointer operand has a value, and a following load    *)
(* tagged with that register returns v.  For a 1-bit value the store       *)
(* writes boolToBv1(v) and the load returns bv1ToBool of the register,     *)
(* which has the truth value of v: boolToBv1 maps true to the 1-bit        *)
(* numeral 1 and false to 0, bv1ToBool maps the numeral 1 to true.         *)
C30_ScalarRoundTrip ==
  LET RECURSIVE Eval(_, _)
      Eval(t, leaf) ==
        IF t[1] = "boolToBv1"
        THEN (IF Eval(t[2], leaf) = "true" THEN "bv1:1" ELSE "bv1:0")
        ELSE IF t[1] = "bv1ToBool"
        THEN (IF Eval(t[2], leaf) = "bv1:1" THEN "true" ELSE "false")
        ELSE leaf
      ScalarStore(e) ==
        /\ Ins[e.inst].kind = "store" /\ ~e.skipped /\ e.fatal = "none"
        /\ e.scalar0 /\ e.rd0 # "none" /\ e.wr0 # "none"
        /\ e.operands[1] # NullE /\ ~IsSkipped(Op(e.inst, 1))
      ScalarLoad(l) ==
        /\ Ins[l.inst].kind = "load" /\ ~l.skipped /\ l.fatal = "none"
        /\ l.scalar0 /\ l.rd0 # "none"
  IN \A n \in LogIdx :
       LET e == ctx.log[n]
           v == e.operands[1]
           bit == TyOf(Op(e.inst, 1)) = "i1"
       IN ScalarStore(e) =>
            /\ e.memOut1 = IF bit THEN <<"boolToBv1", v>> ELSE v
            /\ \A m \in LogIdx :
                 LET l == ctx.log[m] IN
                 (m > n /\ ScalarLoad(l) /\ l.rd0 = e.wr0
                    /\ TyOf(l.inst) = TyOf(Op(e.inst, 1)))
                   => /\ l.memIn0 = e.memOut1
                      /\ ~bit => l.val1 = v
                      /\ bit => \A leaf \in {"true", "false"} :
                                  Eval(l.val1, leaf) = Eval(v, leaf)

(* both scalar stores of block scal have been loaded back: the i32 one as  *)
(* the stored numeral, the i1 one through the two conversions; the pointer *)
(* operand of the stores never had a value                                 *)
C30_Witness ==
  /\ lastOp = [op |-> "exec", a |-> "scal", b |-> "null"]
  /\ Ok(ctx)
  /\ ctx.store["s1"] = Si(1, 32)
  /\ ctx.store["sld"] = Si(1, 32)
  /\ ctx.store["s2"] = <<"boolToBv1", ctx.store["xb"]>>
  /\ ctx.store["slb"] = <<"bv1ToBool", <<"boolToBv1", ctx.store["xb"]>>>>
  /\ \E n \in LogIdx :
       ctx.log[n].inst = "sb" /\ ctx.log[n].operands[2] = NullE

(* C22: memory round trip at word level, for both memory representations:  *)
(* loading the aligned word at address a from the memory produced by       *)
(* storing word v at a yields v, and loading at any other address b yields *)
(* what the memory held at b before the store.  A load term is read as the *)
(* solver reads it: select(store(m, p, v), q) and the application of the   *)
(* overriding function are v when q = p and the word of m at q otherwise.  *)
C22_WordRoundTrip ==
  [][LET RECURSIVE Sel(_, _)
         Sel(m, q) ==
           IF m[1] = "store" THEN (IF m[3] = q THEN m[4] ELSE Sel(m[2], q))
           ELSE IF m[1] = "lambda" THEN (IF m[2] = q THEN m[3] ELSE Sel(m[4], q))
           ELSE <<"init", q>>
         Value(t) == Sel(t[2], t[3])
     IN lastOp'.op = "storeAlignedWordToMem" =>
          \A r \in DOMAIN svc.mem : \A b \in 0..MaxAddr :
            Value(LoadAlignedWordFromMem(r, b, svc'.mem[r]))
              = IF b = svc'.ptr THEN svc'.val
                ELSE Value(LoadAlignedWordFromMem(r, b, svc.mem[r]))]_vars

(* two stores at different addresses, in both representations *)
C22_Witness ==
  /\ lastOp.op = "storeAlignedWordToMem"
  /\ svc.mem["array"] =
       <<"store", <<"store", <<"mem0">>, 0, <<"w", 1>>>>, 1, <<"w", 0>>>>
  /\ svc.mem["lambda"] =
       <<"lambda", 1, <<"w", 0>>, <<"lambda", 0, <<"w", 1>>, <<"mem0">>>>>>

(* C24: pop() is the inverse of push(): after as many pops as pushes the   *)
(* solver context has the number of open scopes it started with.           *)
C24_PopInvertsPush ==
  (svc.pushes = svc.pops) => svc.d_ctx = svc.scopes0

(* C31: a switch terminator that reaches the engine always produces the    *)
(* fatal 'must be lowered' outcome: neither exec on its block nor execEdg  *)
(* out of its block completes normally.                                    *)
C31_SwitchIsFatal ==
  (lastOp.op \in {"exec", "execEdg"}
     /\ Ins[Terminator(lastOp.a)].kind = "switch")
    => ctx.fatal = "switch must be lowered"

(* C32: whenever a call with a known summary is executed, the parameter    *)
(* stack already holds at least the three reserved entries (path           *)
(* condition, error flag in, error flag out), so that setParameter(0..2)   *)
(* writes within the vector.                                               *)
C32_ReservedParameters ==
  \A n \in LogIdx :
    LET e == ctx.log[n]
        F == Ins[e.inst].aux
    IN (Ins[e.inst].kind = "call" /\ F # "" /\ ~e.skipped
          /\ Vals[F].fi # << >>)
         => Len(e.fp0) >= 3

(* C33: a memory tag is consumed by at most one memory instruction: after  *)
(* any load, store, memset or memcpy finishes, performed or skipped, the   *)
(* read, write and transfer-read meta-registers are all unset.             *)
C33_TagConsumedOnce ==
  \A n \in LogIdx :
    LET e == ctx.log[n] IN
    (Ins[e.inst].kind \in {"load", "store", "memset", "memcpy"}
       /\ e.fatal = "none")
      => (e.rd1 = "none" /\ e.wr1 = "none" /\ e.trf1 = "none")

(* C34: calloc is treated as a no-op whenever the read meta-register or    *)
(* the write meta-register is unset: it is not fatal, adds no constraint   *)
(* and writes no register.                                                 *)
C34_CallocNopWithoutTag ==
  \A n \in LogIdx :
    LET e == ctx.log[n]
        F == Ins[e.inst].aux
    IN (Ins[e.inst].kind = "call" /\ F # "" /\ ~e.skipped
          /\ Vals[F].name = "calloc"
          /\ (e.rd0 = "none" \/ e.wr0 = "none"))
         => (e.fatal = "none" /\ e.side1 = e.side0 /\ e.written = {})

(* C35: when a bswap intrinsic is lowered in place, every instruction      *)
(* produced by the lowering is executed exactly once by the following      *)
(* steps, both when the bswap is the first instruction of its block and    *)
(* when it is not.                                                         *)
C35_LoweredRunOnce ==
  lastOp.op = "lowerBswap" =>
    \A i \in {"bswap.2", "bswap.1", "bswap.i16"} :
      Cardinality({n \in 1..Len(svc.ran) : svc.ran[n] = i}) = 1

(* C36: module-entry initialisation happens once per run: when main's      *)
(* entry block is executed more than once by the same context, the module  *)
(* hook and the allocation of function and global regions are not          *)
(* repeated.                                                               *)
C36_ModuleEntryOnce == ctx.moduleEntries <= 1

(* C37: in every context of a lineage, every register getRegister returns  *)
(* for some value is a known register of that context, under any           *)
(* interleaving of fork, parent mkRegister and child mkRegister; a         *)
(* register the parent declares after the fork and the child finds through *)
(* its parent is known to the child.                                       *)
C37_FoundRegisterIsKnown ==
  \A v \in ValueIds :
    /\ GetRegister(ctx, v) # "none" => v \in ctx.decl
    /\ \A k \in KidIds :
         (kids[k] # << >> /\ GetRegister(KidBegin(k), v) # "none")
           => v \in KidBegin(k).decl

(* C38: the byte offset computed for a GEP is a bit-vector of the width of  *)
(* the pointer it is added to; for constant indices it is the numeral of    *)
(* the sum of the struct field offsets and of index * elementSize (kept by  *)
(* its signed reading), negative indices included; a GEP with no non-zero   *)
(* contribution yields the zero offset of that width.                       *)
C38_GepOffset ==
  lastOp.op = "gep" =>
    LET g == svc.gep
        RECURSIVE Width(_)
        Width(t) ==
          IF t[1] \in {"bvnum", "sym"} THEN t[3]
          ELSE IF Width(t[2]) = Width(t[3]) THEN Width(t[2]) ELSE 0
        RECURSIVE Sum(_)
        Sum(n) ==
          IF n = 0 THEN 0
          ELSE Sum(n - 1) + (IF g.TI[n].kind = "field" THEN g.TI[n].k
                             ELSE g.TI[n].k * g.TI[n].sz)
        constant == \A n \in 1..Len(g.TI) : g.TI[n].kind # "sym"
    IN /\ Width(g.off) = g.ptr
       /\ constant => (g.off[1] = "bvnum" /\ g.off[2] = Sum(Len(g.TI)))

(* C39: PromoteMalloc changes only the function named main (every other    *)
(* function is left untouched and reported unchanged), and its return      *)
(* value is true exactly when it modified the function: also when it       *)
(* erased a call to free.                                                  *)
C39_PromoteMallocReportsChange ==
  lastOp.op = "promoteMalloc" =>
    /\ svc.pm.name # "main" => (svc.pm.body = svc.pm.F /\ ~svc.pm.changed)
    /\ svc.pm.changed <=> svc.pm.body # svc.pm.F

====
